---- MODULE Spec2Model ----
(***************************************************************************)
(* A model of the storyteller core: the immutable Story entity model       *)
(* (core/story.py), the project persistence (core/persistence.py), the     *)
(* story structure (generation/prompts.py) and the image generation        *)
(* configuration, generator and singleton accessor (generation/image.py).  *)
(***************************************************************************)
EXTENDS Integers, Sequences, FiniteSets, TLC

(***************************************************************************)
(* Bounds of the model.                                                    *)
(***************************************************************************)
\* page numbers handed to add_page / update_page / remove_page are 1..MaxPageNumber
MaxPageNumber == 3
\* add_page is not called on a story that already has MaxPages pages
MaxPages == 3
\* the wall clock (datetime.now) takes the values 0..MaxClock
MaxClock == 1
\* ImageConfig is constructed with steps in 0..MaxSteps
MaxSteps == 32
\* at most MaxCalls generate calls are started on the generator
MaxCalls == 2
\* at most MaxProjects project directories exist under the base directories
MaxProjects == 2
\* create_project_directory is not called with MaxDirectories project
\* directories in place
MaxDirectories == 3
\* the stories taken through serialization have up to MaxTripPages pages
MaxTripPages == 2
\* the characters of a story
MaxCharacters == 1
\* the characters of a story whose names may repeat
MaxCast == 3
\* the page counts handed to calculate_story_structure are 0..MaxPageCount
MaxPageCount == 120
\* the texts handed to slugify have up to MaxTextLen characters
MaxTextLen == 4
\* process_user_input calls of one conversation
MaxTurns == 2

VARIABLES
    \* ---- entity model (core/story.py) ----
    story,      \* the Story the caller holds (callers chain results)
    now,        \* the wall clock read by datetime.now()
    lastOp,     \* the last entity-model call and how it ended
    added,      \* the pages handed to add_page, in call order, while add_page
                \* is the only mutation applied since create_story
    \* ---- ImageConfig construction (generation/image.py) ----
    made,       \* the last ImageConfig(...) call: its arguments and how it ended
    \* ---- get_generator (generation/image.py) ----
    default_generator,  \* the module global _default_generator: 0 (None) or
                        \* the number of the instance it refers to
    instances,  \* the ImageGenerator instances created so far: their configs
    getter,     \* each thread's get_generator call
    \* ---- one ImageGenerator (generation/image.py) ----
    config,             \* self._config
    flux_model,         \* self._flux_model: NoModel or what was loaded
    model_lock,         \* self._model_lock: who holds it, or Free
    cancel_requested,   \* self._cancel_requested
    call,               \* each thread's generate call
    uc,                 \* the update_config call in progress
    nCalls,             \* generate calls started
    \* ---- the file system and the persistence calls (core/persistence.py) ----
    disk,       \* the file system: the directories, the files and their contents
    lastIO,     \* the last persistence call and how it ended
    \* ---- the story structure (generation/prompts.py) ----
    structure,  \* the last calculate_story_structure call and what it returned
    \* ---- prompt composition (generation/styles.py, generation/prompts.py) ----
    composed,   \* the last composition call and what it returned
    \* ---- text functions (core/persistence.py, generation/prompts.py) ----
    slugged,    \* the last slugify call and what it returned
    mentioned,  \* the last find_characters_in_page call and what it returned
    \* ---- one StoryEngine (core/engine.py) ----
    state,      \* self._state: the messages, the phase and the story
    lastCall    \* the last call on the engine and how it ended

storyVars == <<story, now, lastOp, added>>
configVars == <<made>>
singletonVars == <<default_generator, instances, getter>>
generatorVars == <<config, flux_model, model_lock, cancel_requested, call, uc,
                   nCalls>>
persistVars == <<disk, lastIO>>
promptVars == <<structure, composed, slugged, mentioned>>
engineVars == <<state, lastCall>>
vars == <<storyVars, configVars, singletonVars, generatorVars, persistVars,
          promptVars, engineVars>>
notStory == <<configVars, singletonVars, generatorVars, persistVars, promptVars,
    engineVars>>
notConfig == <<storyVars, singletonVars, generatorVars, persistVars, promptVars,
    engineVars>>
notSingleton == <<storyVars, configVars, generatorVars, persistVars, promptVars,
    engineVars>>
notGenerator == <<storyVars, configVars, singletonVars, persistVars, promptVars,
    engineVars>>
\* what the persistence calls leave alone
notPersist == <<configVars, singletonVars, generatorVars, promptVars, engineVars>>
notPrompt == <<storyVars, configVars, singletonVars, generatorVars, persistVars,
              engineVars>>
notEngine == <<storyVars, configVars, singletonVars, generatorVars, persistVars,
              promptVars>>

(***************************************************************************)
(* core/story.py: Page, StoryMetadata, Story                               *)
(***************************************************************************)
None == "None"

Texts == {"a", "b"}

\* Page(page_number, text, illustration_prompt="", illustration_path=None)
Page(page_number, text, illustration_prompt, illustration_path) ==
    [page_number |-> page_number, text |-> text,
     illustration_prompt |-> illustration_prompt,
     illustration_path |-> illustration_path]

\* create_page(page_number, text, illustration_prompt)
create_page(page_number, text, illustration_prompt) ==
    Page(page_number, text, illustration_prompt, None)

\* dataclasses.replace(obj, **kwargs): the fields named in kwargs are replaced
replace(obj, kwargs) ==
    [f \in DOMAIN obj |-> IF f \in DOMAIN kwargs THEN kwargs[f] ELSE obj[f]]

\* Page.with_updates(**kwargs)
Page_with_updates(page, kwargs) == replace(page, kwargs)

\* StoryMetadata.with_updates(**kwargs): modified_at is stamped with the
\* clock unless the caller passes it
Metadata_with_updates(metadata, kwargs, clock) ==
    IF "modified_at" \notin DOMAIN kwargs
    THEN replace(metadata, [f \in DOMAIN kwargs \cup {"modified_at"} |->
                              IF f = "modified_at" THEN clock ELSE kwargs[f]])
    ELSE replace(metadata, kwargs)

NoKwargs == [f \in {} |-> None]

\* create_story(title, author, target_age, style): empty pages and characters,
\* no project path, both timestamps from the clock (the default_factory of
\* created_at and modified_at)
create_story(title, author, target_age, style, clock) ==
    [metadata |-> [title |-> title, author |-> author, target_age |-> target_age,
                   created_at |-> clock, modified_at |-> clock, style |-> style],
     characters |-> <<>>,
     pages |-> <<>>,
     project_path |-> None]

\* an insertion that puts p before the elements of equal key
RECURSIVE InsertUnstable(_, _)
InsertUnstable(p, s) ==
    IF s = <<>> THEN <<p>>
    ELSE IF s[1].page_number < p.page_number
         THEN <<s[1]>> \o InsertUnstable(p, Tail(s))
         ELSE <<p>> \o s

\* list.sort(key=lambda p: p.page_number): a stable sort.  Insert(p, s) puts p
\* after every element whose key is <= p's key.
RECURSIVE Insert(_, _)
Insert(p, s) ==
    IF s = <<>> THEN <<p>>
    ELSE IF s[1].page_number <= p.page_number
         THEN <<s[1]>> \o Insert(p, Tail(s))
         ELSE <<p>> \o s

RECURSIVE SortByPageNumber(_)
SortByPageNumber(s) ==
    IF s = <<>> THEN <<>>
    ELSE Insert(s[Len(s)], SortByPageNumber(SubSeq(s, 1, Len(s) - 1)))

\* add_page(story, page): append, sort the whole list, stamp
add_page(s, page, clock) ==
    [s EXCEPT !.pages = SortByPageNumber(Append(s.pages, page)),
              !.metadata = Metadata_with_updates(s.metadata, NoKwargs, clock)]

\* update_page's found flag: some page has that number
HasPage(s, page_number) ==
    \E i \in 1..Len(s.pages) : s.pages[i].page_number = page_number

\* update_page stamping modified_at before it looks for the page
update_page_stamps_first(s, page_number, kwargs, clock) ==
    IF ~HasPage(s, page_number)
    THEN [ok |-> FALSE, error |-> "ValueError",
          story |-> [s EXCEPT !.metadata =
                        Metadata_with_updates(s.metadata, NoKwargs, clock)]]
    ELSE [ok |-> TRUE, error |-> None,
          story |-> [s EXCEPT
              !.pages = [i \in 1..Len(s.pages) |->
                           IF s.pages[i].page_number = page_number
                           THEN Page_with_updates(s.pages[i], kwargs)
                           ELSE s.pages[i]],
              !.metadata = Metadata_with_updates(s.metadata, NoKwargs, clock)]]

\* update_page(story, page_number, **kwargs): every page with that number is
\* replaced; ValueError when there is none; no re-sort
update_page(s, page_number, kwargs, clock) ==
    IF ~HasPage(s, page_number)
    THEN [ok |-> FALSE, error |-> "ValueError", story |-> s]
    ELSE [ok |-> TRUE, error |-> None,
          story |-> [s EXCEPT
              !.pages = [i \in 1..Len(s.pages) |->
                           IF s.pages[i].page_number = page_number
                           THEN Page_with_updates(s.pages[i], kwargs)
                           ELSE s.pages[i]],
              !.metadata = Metadata_with_updates(s.metadata, NoKwargs, clock)]]

\* remove_page(story, page_number): drops every page with that number
remove_page(s, page_number, clock) ==
    [s EXCEPT !.pages = SelectSeq(s.pages, LAMBDA p : p.page_number # page_number),
              !.metadata = Metadata_with_updates(s.metadata, NoKwargs, clock)]

\* a renumbering that stamps the story and leaves the numbers as they are
renumber_pages_numbers_kept(s, clock) ==
    [s EXCEPT !.metadata = Metadata_with_updates(s.metadata, NoKwargs, clock)]
\* renumber_pages(story): the i-th page gets page_number i
renumber_pages(s, clock) ==
    [s EXCEPT !.pages = [i \in 1..Len(s.pages) |->
                           replace(s.pages[i], [page_number |-> i])],
              !.metadata = Metadata_with_updates(s.metadata, NoKwargs, clock)]

(***************************************************************************)
(* str methods and regular expressions the code applies to text            *)
(***************************************************************************)
\* the i-th character of a string, as a string of length one
Char(s, i) == SubSeq(s, i, i)
AsciiUpper == "ABCDEFGHIJKLMNOPQRSTUVWXYZ"
AsciiLower == "abcdefghijklmnopqrstuvwxyz"
AsciiDigits == "0123456789"
Whitespace == " \t\n"
\* the one-character string c occurs in chars
In(c, chars) == \E i \in 1..Len(chars) : Char(chars, i) = c
IndexIn(c, chars) == CHOOSE i \in 1..Len(chars) : Char(chars, i) = c

\* str.lower()
LowerChar(c) ==
    IF In(c, AsciiUpper) THEN Char(AsciiLower, IndexIn(c, AsciiUpper)) ELSE c
RECURSIVE lower(_)
lower(s) ==
    IF s = "" THEN "" ELSE LowerChar(Char(s, 1)) \o lower(SubSeq(s, 2, Len(s)))

\* sub in text
Contains(text, sub) ==
    \E i \in 1..(Len(text) - Len(sub) + 1) : SubSeq(text, i, i + Len(sub) - 1) = sub

\* str.strip(chars)
RECURSIVE lstrip(_, _)
lstrip(s, chars) ==
    IF s # "" /\ In(Char(s, 1), chars) THEN lstrip(SubSeq(s, 2, Len(s)), chars)
    ELSE s
RECURSIVE rstrip(_, _)
rstrip(s, chars) ==
    IF s # "" /\ In(Char(s, Len(s)), chars)
    THEN rstrip(SubSeq(s, 1, Len(s) - 1), chars)
    ELSE s
strip(s, chars) == rstrip(lstrip(s, chars), chars)

\* str.replace(old, new) for a one-character old
RECURSIVE str_replace(_, _, _)
str_replace(s, old, new) ==
    IF s = "" THEN ""
    ELSE (IF Char(s, 1) = old THEN new ELSE Char(s, 1))
         \o str_replace(SubSeq(s, 2, Len(s)), old, new)

\* re.sub(r"[^...]", "", s): only the characters of keep remain
RECURSIVE sub_not_in(_, _)
sub_not_in(s, keep) ==
    IF s = "" THEN ""
    ELSE (IF In(Char(s, 1), keep) THEN Char(s, 1) ELSE "")
         \o sub_not_in(SubSeq(s, 2, Len(s)), keep)

\* a substitution that leaves the runs of hyphens as they are
sub_hyphen_runs_kept(s) == s
\* re.sub(r"-+", "-", s): every run of hyphens becomes one hyphen
RECURSIVE sub_hyphen_runs(_)
sub_hyphen_runs(s) ==
    IF Len(s) < 2 THEN s
    ELSE IF Char(s, 1) = "-" /\ Char(s, 2) = "-"
         THEN sub_hyphen_runs(SubSeq(s, 2, Len(s)))
         ELSE Char(s, 1) \o sub_hyphen_runs(SubSeq(s, 2, Len(s)))

(***************************************************************************)
(* core/story.py: Character and the Story methods and mutations            *)
(***************************************************************************)
\* Character(name, description, visual_traits=())
Character(name, description, visual_traits) ==
    [name |-> name, description |-> description, visual_traits |-> visual_traits]

\* Character.appears_in_text(text): the name occurs in the text, ignoring case
appears_in_text(character, text) == Contains(lower(text), lower(character.name))

\* Story.with_metadata(**kwargs)
with_metadata(s, kwargs, clock) ==
    [s EXCEPT !.metadata = Metadata_with_updates(s.metadata, kwargs, clock)]

\* with_project_path returning the story as it was
with_project_path_kept(s, path) == s

\* Story.with_project_path(path)
with_project_path(s, path) == [s EXCEPT !.project_path = path]

\* add_character(story, character): appended, never rejected
add_character(s, character, clock) ==
    [s EXCEPT !.characters = Append(s.characters, character),
              !.metadata = Metadata_with_updates(s.metadata, NoKwargs, clock)]

\* Story.get_character(name): the first character of that name, ignoring
\* case; found is FALSE where the code returns None
get_character(s, name) ==
    IF \E i \in 1..Len(s.characters) : lower(s.characters[i].name) = lower(name)
    THEN [found |-> TRUE,
          character |->
              s.characters[CHOOSE i \in 1..Len(s.characters) :
                             /\ lower(s.characters[i].name) = lower(name)
                             /\ \A j \in 1..(i - 1) :
                                   lower(s.characters[j].name) # lower(name)]]
    ELSE [found |-> FALSE, character |-> Character("", "", <<>>)]

\* a removal that compares the names as they are written
remove_character_exact(s, name, clock) ==
    [s EXCEPT !.characters = SelectSeq(s.characters, LAMBDA c : c.name # name),
              !.metadata = Metadata_with_updates(s.metadata, NoKwargs, clock)]

\* remove_character(story, name): every character of that name, ignoring case
remove_character(s, name, clock) ==
    [s EXCEPT !.characters =
                 SelectSeq(s.characters, LAMBDA c : lower(c.name) # lower(name)),
              !.metadata = Metadata_with_updates(s.metadata, NoKwargs, clock)]

(***************************************************************************)
(* pathlib and the file system, as core/persistence.py uses them           *)
(***************************************************************************)
IsAbsolute(p) == Len(p) > 0 /\ Char(p, 1) = "/"
\* dir / part
PathJoin(dir, part) == IF IsAbsolute(part) THEN part ELSE dir \o "/" \o part
RECURSIVE LastSlash(_, _)
LastSlash(p, i) ==
    IF i = 0 THEN 0 ELSE IF Char(p, i) = "/" THEN i ELSE LastSlash(p, i - 1)
\* Path.name and Path.parent
PathName(p) == SubSeq(p, LastSlash(p, Len(p)) + 1, Len(p))
PathParent(p) ==
    LET i == LastSlash(p, Len(p)) IN
    IF i = 0 THEN "." ELSE IF i = 1 THEN "/" ELSE SubSeq(p, 1, i - 1)
RECURSIVE Ancestors(_)
Ancestors(p) ==
    IF PathParent(p) = p \/ PathParent(p) = "." THEN {}
    ELSE {PathParent(p)} \cup Ancestors(PathParent(p))
\* q lies inside the directory p
IsUnder(q, p) == Len(q) > Len(p) /\ SubSeq(q, 1, Len(p) + 1) = p \o "/"

\* a file system: the directories, and the files with their contents
EmptyFS == [dirs |-> {"/"}, files |-> [q \in {} |-> None]]
\* Path.exists(), Path.is_dir()
exists(fs, p) == p \in fs.dirs \/ p \in DOMAIN fs.files
is_dir(fs, p) == p \in fs.dirs
\* Path.mkdir(parents=True, exist_ok=True)
mkdir(fs, p) == [fs EXCEPT !.dirs = @ \cup {p} \cup Ancestors(p)]
\* open(p, "w") and write
write_file(fs, p, content) ==
    [fs EXCEPT !.files = [q \in DOMAIN @ \cup {p} |-> IF q = p THEN content ELSE @[q]]]
\* a removal that takes every path whose text begins with p
rmtree_by_prefix(fs, p) ==
    [dirs |-> {d \in fs.dirs : Len(d) < Len(p) \/ SubSeq(d, 1, Len(p)) # p},
     files |-> [q \in {q \in DOMAIN fs.files : Len(q) < Len(p) \/ SubSeq(q, 1, Len(p)) # p} |-> fs.files[q]]]
\* shutil.rmtree(p)
rmtree(fs, p) ==
    [dirs |-> {d \in fs.dirs : d # p /\ ~IsUnder(d, p)},
     files |-> [q \in {q \in DOMAIN fs.files : ~IsUnder(q, p)} |-> fs.files[q]]]
\* the entries Path.iterdir() yields for a directory
Entries(fs, dir) ==
    {p \in fs.dirs \cup DOMAIN fs.files : p # dir /\ PathParent(p) = dir}

(***************************************************************************)
(* core/persistence.py                                                     *)
(***************************************************************************)
SCHEMA_VERSION == "1.0"
DEFAULT_STORIES_DIR == "/home/u/Storyteller/stories"

\* the outcome of a call: a value, or the exception it raised
Ok(v) == [ok |-> TRUE, error |-> None, value |-> v]
Err(e) == [ok |-> FALSE, error |-> e, value |-> None]

\* dict.get(key, default)
Get(d, key, default) == IF key \in DOMAIN d THEN d[key] ELSE default

\* no slugify call made yet
NoSlug == [called |-> FALSE, text |-> "", slug |-> ""]

\* get_stories_directory(): the default directory, created if necessary
get_stories_directory(fs) ==
    [path |-> DEFAULT_STORIES_DIR, fs |-> mkdir(fs, DEFAULT_STORIES_DIR)]

\* slugify(text)
slugify(text) ==
    LET spaced == str_replace(strip(lower(text), Whitespace), " ", "-")
        kept == sub_not_in(spaced, AsciiLower \o AsciiDigits \o "-")
        single == sub_hyphen_runs(kept)
        slug == strip(single, "-")
    IN  IF slug = "" THEN "untitled" ELSE slug

\* str(n) and f"{n}" for an integer n >= 0: its decimal digits
RECURSIVE Decimal(_)
Decimal(n) ==
    IF n < 10 THEN Char(AsciiDigits, n + 1)
    ELSE Decimal(n \div 10) \o Char(AsciiDigits, (n % 10) + 1)

\* datetime.isoformat() and datetime.fromisoformat(): a point in time is
\* written as the digits of its clock value and read back digit by digit
datetime_to_iso(dt) == Decimal(dt)
IsIso(iso_str) ==
    iso_str # "" /\ \A i \in 1..Len(iso_str) : In(Char(iso_str, i), AsciiDigits)
RECURSIVE iso_to_datetime(_)
iso_to_datetime(iso_str) ==
    IF Len(iso_str) = 1 THEN IndexIn(iso_str, AsciiDigits) - 1
    ELSE 10 * iso_to_datetime(SubSeq(iso_str, 1, Len(iso_str) - 1))
         + IndexIn(Char(iso_str, Len(iso_str)), AsciiDigits) - 1

\* json.dump and json.load: the text of a file is a JSON document holding
\* data, or text that is not JSON
json_dump(data) == [wellformed |-> TRUE, data |-> data]
NotJson == [wellformed |-> FALSE, data |-> <<>>]
\* a json.load that reads text that is not JSON as an empty object
json_load_lenient(text) == Ok(text.data)
json_load(text) == IF text.wellformed THEN Ok(text.data) ELSE Err("JSONDecodeError")

character_to_dict(character) ==
    [name |-> character.name, description |-> character.description,
     visual_traits |-> character.visual_traits]

dict_to_character(data) ==
    IF ~({"name", "description"} \subseteq DOMAIN data) THEN Err("KeyError")
    ELSE Ok(Character(data.name, data.description, Get(data, "visual_traits", <<>>)))

\* page_to_dict writing the whole illustration path instead of its file name
page_to_dict_whole_path(page) ==
    [page_number |-> page.page_number, text |-> page.text,
     illustration_prompt |-> page.illustration_prompt,
     illustration_path |-> page.illustration_path]

\* the illustration path is written as its file name only
page_to_dict(page) ==
    [page_number |-> page.page_number, text |-> page.text,
     illustration_prompt |-> page.illustration_prompt,
     illustration_path |-> IF page.illustration_path # None
                           THEN PathName(page.illustration_path) ELSE None]

\* the stored name is joined to pages_dir, when both are there
dict_to_page(data, pages_dir) ==
    LET stored == Get(data, "illustration_path", None)
        illustration_path ==
            IF stored # None /\ stored # "" /\ pages_dir # None
            THEN PathJoin(pages_dir, stored) ELSE None
    IN  IF ~({"page_number", "text"} \subseteq DOMAIN data) THEN Err("KeyError")
        ELSE Ok(Page(data.page_number, data.text,
                     Get(data, "illustration_prompt", ""), illustration_path))

metadata_to_dict(metadata) ==
    [title |-> metadata.title, author |-> metadata.author,
     target_age |-> metadata.target_age,
     created_at |-> datetime_to_iso(metadata.created_at),
     modified_at |-> datetime_to_iso(metadata.modified_at),
     style |-> metadata.style]

dict_to_metadata(data) ==
    IF "title" \notin DOMAIN data THEN Err("KeyError")
    ELSE IF "created_at" \notin DOMAIN data THEN Err("KeyError")
    ELSE IF ~IsIso(data.created_at) THEN Err("ValueError")
    ELSE IF "modified_at" \notin DOMAIN data THEN Err("KeyError")
    ELSE IF ~IsIso(data.modified_at) THEN Err("ValueError")
    ELSE Ok([title |-> data.title, author |-> Get(data, "author", ""),
             target_age |-> Get(data, "target_age", "5-8"),
             created_at |-> iso_to_datetime(data.created_at),
             modified_at |-> iso_to_datetime(data.modified_at),
             style |-> Get(data, "style", "storybook_classic")])

story_to_dict(s) ==
    [version |-> SCHEMA_VERSION,
     metadata |-> metadata_to_dict(s.metadata),
     characters |-> [i \in 1..Len(s.characters) |-> character_to_dict(s.characters[i])],
     pages |-> [i \in 1..Len(s.pages) |-> page_to_dict(s.pages[i])]]

dict_to_story(data, project_path) ==
    LET pages_dir == IF project_path # None THEN PathJoin(project_path, "pages")
                     ELSE None
    IN  IF "metadata" \notin DOMAIN data THEN Err("KeyError")
        ELSE LET metadata == dict_to_metadata(data.metadata)
                 cs == Get(data, "characters", <<>>)
                 ps == Get(data, "pages", <<>>)
             IN  IF ~metadata.ok THEN metadata
                 ELSE IF \E i \in 1..Len(cs) : ~dict_to_character(cs[i]).ok
                 THEN Err("KeyError")
                 ELSE IF \E i \in 1..Len(ps) : ~dict_to_page(ps[i], pages_dir).ok
                 THEN Err("KeyError")
                 ELSE Ok([metadata |-> metadata.value,
                          characters |-> [i \in 1..Len(cs) |->
                                            dict_to_character(cs[i]).value],
                          pages |-> [i \in 1..Len(ps) |->
                                       dict_to_page(ps[i], pages_dir).value],
                          project_path |-> project_path])

\* a collision loop that takes the first name whether it is free or not
Probe_first_name(fs, base_dir, original_slug, project_dir, counter) == project_dir

\* create_project_directory: the first free name among slug, slug-1, slug-2, ...
RECURSIVE Probe(_, _, _, _, _)
Probe(fs, base_dir, original_slug, project_dir, counter) ==
    IF exists(fs, project_dir)
    THEN Probe(fs, base_dir, original_slug,
               PathJoin(base_dir, original_slug \o "-" \o Decimal(counter)),
               counter + 1)
    ELSE project_dir

create_project_directory(s, base_dir, fs) ==
    LET base == IF base_dir = None THEN get_stories_directory(fs)
                ELSE [path |-> base_dir, fs |-> fs]
        slug == slugify(s.metadata.title)
        project_dir == Probe(base.fs, base.path, slug, PathJoin(base.path, slug), 1)
    IN  [path |-> project_dir,
         fs |-> mkdir(mkdir(mkdir(base.fs, project_dir),
                            PathJoin(project_dir, "pages")),
                      PathJoin(project_dir, "exports"))]

\* save_story(story, project_path): the explicit path, else the story's own,
\* else a new project directory; ValueError with neither path nor title
save_story(s, project_path, fs, clock) ==
    LET given == IF project_path # None THEN project_path ELSE s.project_path IN
    IF given = None /\ s.metadata.title = ""
    THEN [ok |-> FALSE, error |-> "ValueError", story |-> s, fs |-> fs]
    ELSE LET target == IF given = None THEN create_project_directory(s, None, fs)
                       ELSE [path |-> given, fs |-> fs]
             save_path == target.path
             made_dirs == mkdir(mkdir(mkdir(target.fs, save_path),
                                      PathJoin(save_path, "pages")),
                                PathJoin(save_path, "exports"))
             saved == with_metadata(with_project_path(s, save_path), NoKwargs, clock)
         IN  [ok |-> TRUE, error |-> None, story |-> saved,
              fs |-> write_file(made_dirs, PathJoin(save_path, "story.json"),
                                json_dump(story_to_dict(saved)))]

\* load_story(project_path)
load_story(project_path, fs) ==
    LET story_file == PathJoin(project_path, "story.json") IN
    IF ~exists(fs, story_file) THEN Err("FileNotFoundError")
    ELSE LET data == json_load(fs.files[story_file]) IN
         IF ~data.ok THEN data ELSE dict_to_story(data.value, project_path)

\* stories.sort(key=lambda x: x[1].modified_at, reverse=True): a stable sort,
\* newest first; InsertNewestFirst(e, s) puts e after every element that is
\* not older than e
RECURSIVE InsertNewestFirst(_, _)
InsertNewestFirst(e, s) ==
    IF s = <<>> THEN <<e>>
    ELSE IF s[1].metadata.modified_at >= e.metadata.modified_at
         THEN <<s[1]>> \o InsertNewestFirst(e, Tail(s))
         ELSE <<e>> \o s
RECURSIVE SortNewestFirst(_)
SortNewestFirst(s) ==
    IF s = <<>> THEN <<>>
    ELSE InsertNewestFirst(s[Len(s)], SortNewestFirst(SubSeq(s, 1, Len(s) - 1)))

\* the handler of list_stories: which exceptions make it skip a project
Skips(e) == e \in {"JSONDecodeError", "KeyError"}

\* the body of the loop of list_stories for one directory entry: the entry
\* is skipped, or listed, or an exception leaves the loop
ScanEntry(fs, project_dir) ==
    LET story_file == PathJoin(project_dir, "story.json")
        skip == [kind |-> "skip", error |-> None, entry |-> <<>>]
    IN  IF ~is_dir(fs, project_dir) THEN skip
        ELSE IF ~exists(fs, story_file) THEN skip
        ELSE LET data == json_load(fs.files[story_file])
                 metadata == IF ~data.ok THEN data
                             ELSE IF "metadata" \notin DOMAIN data.value
                             THEN Err("KeyError")
                             ELSE dict_to_metadata(data.value.metadata)
             IN  IF metadata.ok
                 THEN [kind |-> "entry", error |-> None,
                       entry |-> <<[path |-> project_dir, metadata |-> metadata.value]>>]
                 ELSE IF Skips(metadata.error) THEN skip
                 ELSE [kind |-> "raise", error |-> metadata.error, entry |-> <<>>]

RECURSIVE Scan(_, _)
Scan(fs, entries) ==
    IF entries = <<>> THEN Ok(<<>>)
    ELSE LET one == ScanEntry(fs, Head(entries)) IN
         IF one.kind = "raise" THEN Err(one.error)
         ELSE LET rest == Scan(fs, Tail(entries)) IN
              IF ~rest.ok THEN rest ELSE Ok(one.entry \o rest.value)

\* list_stories(base_dir); iterdir yields the entries in the given order
list_stories(base_dir, fs, order) ==
    LET base == IF base_dir = None THEN get_stories_directory(fs)
                ELSE [path |-> base_dir, fs |-> fs]
    IN  IF ~exists(base.fs, base.path)
        THEN [ok |-> TRUE, error |-> None, stories |-> <<>>, fs |-> base.fs]
        ELSE LET scanned == Scan(base.fs, order) IN
             IF ~scanned.ok
             THEN [ok |-> FALSE, error |-> scanned.error, stories |-> <<>>,
                   fs |-> base.fs]
             ELSE [ok |-> TRUE, error |-> None,
                   stories |-> SortNewestFirst(scanned.value), fs |-> base.fs]

\* delete_story(project_path)
delete_story(project_path, fs) ==
    IF ~exists(fs, project_path)
    THEN [ok |-> FALSE, error |-> "FileNotFoundError", fs |-> fs]
    ELSE IF ~is_dir(fs, project_path)
    THEN [ok |-> FALSE, error |-> "NotADirectoryError", fs |-> fs]
    ELSE [ok |-> TRUE, error |-> None, fs |-> rmtree(fs, project_path)]

\* get_page_illustration_path(story, page_number): f"page_{page_number:02d}.png"
get_page_illustration_path(s, page_number) ==
    IF s.project_path = None THEN Err("ValueError")
    ELSE Ok(PathJoin(PathJoin(s.project_path, "pages"),
                     "page_" \o (IF page_number < 10 THEN "0" ELSE "")
                             \o Decimal(page_number) \o ".png"))

(***************************************************************************)
(* generation/image.py: ImageConfig                                        *)
(***************************************************************************)
\* seed: int | None = None
NoSeed == -1

NoConfig == [model |-> None, quantize |-> 0, steps |-> 0,
             width |-> 0, height |-> 0, seed |-> NoSeed]

\* ImageConfig(model, quantize, steps, width, height, seed): __post_init__
\* raises ValueError at the first check that fails, and then no object exists
\* (the same with the upper end of the schnell range excluded)
ImageConfig_steps_off_by_one(model, quantize, steps, width, height, seed) ==
    IF model \notin {"schnell", "dev"}
    THEN [ok |-> FALSE, error |-> "ValueError: Invalid model", config |-> NoConfig]
    ELSE IF quantize \notin {4, 8}
    THEN [ok |-> FALSE, error |-> "ValueError: Invalid quantize", config |-> NoConfig]
    ELSE IF model = "schnell" /\ ~(2 <= steps /\ steps < 8)
    THEN [ok |-> FALSE, error |-> "ValueError: Invalid steps for schnell",
          config |-> NoConfig]
    ELSE IF model = "dev" /\ ~(15 <= steps /\ steps <= 30)
    THEN [ok |-> FALSE, error |-> "ValueError: Invalid steps for dev",
          config |-> NoConfig]
    ELSE [ok |-> TRUE, error |-> None,
          config |-> [model |-> model, quantize |-> quantize, steps |-> steps,
                      width |-> width, height |-> height, seed |-> seed]]

ImageConfig(model, quantize, steps, width, height, seed) ==
    IF model \notin {"schnell", "dev"}
    THEN [ok |-> FALSE, error |-> "ValueError: Invalid model", config |-> NoConfig]
    ELSE IF quantize \notin {4, 8}
    THEN [ok |-> FALSE, error |-> "ValueError: Invalid quantize", config |-> NoConfig]
    ELSE IF model = "schnell" /\ ~(2 <= steps /\ steps <= 8)
    THEN [ok |-> FALSE, error |-> "ValueError: Invalid steps for schnell",
          config |-> NoConfig]
    ELSE IF model = "dev" /\ ~(15 <= steps /\ steps <= 30)
    THEN [ok |-> FALSE, error |-> "ValueError: Invalid steps for dev",
          config |-> NoConfig]
    ELSE [ok |-> TRUE, error |-> None,
          config |-> [model |-> model, quantize |-> quantize, steps |-> steps,
                      width |-> width, height |-> height, seed |-> seed]]

\* ImageConfig(): model="schnell", quantize=4, steps=4, 1024x1024, seed=None
DefaultConfig == ImageConfig("schnell", 4, 4, 1024, 1024, NoSeed).config

\* the arguments ImageConfig is constructed with
Models == {"schnell", "dev", "invalid"}
Quantizes == {4, 8, 16}
StepsRange == 0..MaxSteps

\* the configurations handed to update_config: the default one, one that
\* differs from it in steps, width, height and seed, one that differs in
\* quantize and one that differs in model
Configs ==
    {r.config : r \in {x \in {ImageConfig("schnell", 4, 4, 1024, 1024, NoSeed),
                              ImageConfig("schnell", 4, 6, 512, 768, 42),
                              ImageConfig("schnell", 8, 4, 1024, 1024, NoSeed),
                              ImageConfig("dev", 4, 20, 1024, 1024, NoSeed)} : x.ok}}

(***************************************************************************)
(* generation/image.py: GenerationResult, the platform checks and the      *)
(* pieces of ImageGenerator                                                *)
(***************************************************************************)
\* the threads that call generate, and those that call get_generator
GenThreads == {"g1", "g2"}
GetThreads == {"t1", "t2", "t3"}

\* self._model_lock is not held
Free == "free"
\* self._flux_model is None
NoModel == [model |-> None, quantize |-> 0]
\* an output path: its parent directory and its base name
NoPath == [dir |-> "", name |-> ""]
OutputPaths == {[dir |-> "/home/u/stories/luna/pages", name |-> "page_01.png"],
                [dir |-> "/etc", name |-> "passwd.png"]}

\* the messages carried by the exceptions the collaborators throw (an
\* exception constructed without arguments has the empty text)
Msgs == {"", "boom"}
Exc(type, msg) == [type |-> type, msg |-> msg]
str(e) == e.msg

\* GenerationResult(success, image_path=None, generation_time, error=None,
\* seed_used=None)
GenerationResult(success, image_path, error, seed_used) ==
    [success |-> success, image_path |-> image_path, error |-> error,
     seed_used |-> seed_used]
NoResult == GenerationResult(FALSE, NoPath, None, NoSeed)

\* check_platform(): (is_supported, message)
Hosts == {[platform |-> "darwin", machine |-> "arm64"],
          [platform |-> "darwin", machine |-> "x86_64"],
          [platform |-> "linux", machine |-> "x86_64"]}
check_platform(host) ==
    IF host.platform # "darwin"
    THEN <<FALSE, "MFLUX requires macOS with Apple Silicon.">>
    ELSE IF host.machine \notin {"arm64", "arm64e"}
    THEN <<FALSE, "MFLUX requires Apple Silicon, but found " \o host.machine \o ".">>
    ELSE <<TRUE, "Platform supported.">>

\* check_mflux_available(): (is_available, message)
check_mflux_available(installed) ==
    IF installed
    THEN <<TRUE, "MFLUX is available.">>
    ELSE <<FALSE, "MFLUX not installed. Run: pip install mflux. Error: No module named 'mflux'">>

\* generate's handler, "except Exception as e": the exception classes it
\* catches
CatchesRuntimeErrorOnly(e) == e.type = "RuntimeError"

Catches(e) ==
    e.type \in {"Exception", "RuntimeError", "OSError", "AttributeError"}

\* ... and the result it returns for them
generate_except(e) == GenerationResult(FALSE, NoPath, str(e), NoSeed)

\* "if self._cancel_requested:" before the inference (line 274)
cancel_check_skipped(flag) == FALSE

cancel_check(flag) == flag

\* update_config: the cached model is invalidated when model or quantize change
invalidates_on_any_change(old, new) == old # new

invalidates(old, new) ==
    old.model # new.model \/ old.quantize # new.quantize

\* generate: "if self._flux_model is None: self._load_model(...)"
needs_load(model) == model = NoModel

\* the seed of a generation: the configured one, or one derived from the time
MAX_SEED == 2147483647
\* (a + b) % m for a and b in 0..m-1, without leaving 32 bits
AddMod(a, b, m) == IF a >= m - b THEN a - (m - b) ELSE a + b
\* (10 * a) % m
TimesTenMod(a, m) ==
    AddMod(AddMod(AddMod(AddMod(a, a, m), AddMod(a, a, m), m),
                  AddMod(AddMod(a, a, m), AddMod(a, a, m), m), m),
           AddMod(a, a, m), m)
\* n % m for the integer n written in decimal, digit after digit
RECURSIVE int_mod(_, _)
int_mod(digits, m) ==
    IF digits = <<>> THEN 0
    ELSE AddMod(TimesTenMod(int_mod(SubSeq(digits, 1, Len(digits) - 1), m), m),
                digits[Len(digits)] % m, m)
\* int(time.time() * 1000), in decimal: 1733019303128 and 1762250000000
TimeSamples ==
    {<<1, 7, 3, 3, 0, 1, 9, 3, 0, 3, 1, 2, 8>>,
     <<1, 7, 6, 2, 2, 5, 0, 0, 0, 0, 0, 0, 0>>}
\* a generation that takes the time also when a seed is configured
Seeds_time_only(cfg) == {int_mod(ms, MAX_SEED) : ms \in TimeSamples}
Seeds(cfg) ==
    IF cfg.seed # NoSeed THEN {cfg.seed}
    ELSE {int_mod(ms, MAX_SEED) : ms \in TimeSamples}

\* a generate call that has not started
IdleCall ==
    [pc |-> "idle", output_path |-> NoPath, seed |-> NoSeed, steps |-> 0,
     loaded |-> FALSE, inferred |-> FALSE, dir_made |-> FALSE, saved |-> FALSE,
     outcome |-> "none", failed_at |-> "none", result |-> NoResult]

\* generate returns result.  Of the call there remain its output path, what
\* it did (loaded the model, invoked the backend, made the directory, saved
\* the image) and the stage at which it failed.
Returned(c, stage, result) ==
    [c EXCEPT !.pc = "done", !.outcome = "returned", !.failed_at = stage,
              !.result = result, !.seed = NoSeed, !.steps = 0]

\* an exception e is thrown inside generate's try block at the given stage:
\* the handler turns it into a failure result, or it leaves generate
Thrown(c, stage, e) ==
    IF Catches(e)
    THEN Returned(c, stage, generate_except(e))
    ELSE [c EXCEPT !.pc = "done", !.outcome = "raised", !.failed_at = stage,
                   !.seed = NoSeed, !.steps = 0]

\* a get_generator call that has not started
IdleGetter == [pc |-> "idle", arg |-> NoConfig, new |-> 0, ret |-> 0]
\* the config argument of get_generator: None or a configuration
GetArgs == {NoConfig, ImageConfig("schnell", 4, 6, 1024, 1024, NoSeed).config}

(***************************************************************************)
(* The calls a client makes on the entity model.                           *)
(***************************************************************************)
PageNumbers == 1..MaxPageNumber

\* the keyword arguments update_page is called with
KwargsSet ==
    {[text |-> "b"],
     [illustration_prompt |-> "p", illustration_path |-> "/tmp/img/cat.png"]}
    \cup {[page_number |-> n] : n \in PageNumbers}

Op(name) == [op |-> name, ok |-> TRUE]

\* a persistence call: its name, its path argument or the path it returned,
\* whether it returned, and the exception it raised
IO(op, path, ok, error) == [op |-> op, path |-> path, ok |-> ok, error |-> error]
NoIO == IO("none", None, TRUE, None)

(***************************************************************************)
(* generation/styles.py: the style presets and the prompt composition      *)
(***************************************************************************)
SAFETY_MODIFIERS ==
    "children's book illustration, friendly and approachable, "
    \o "warm colors, gentle and safe feeling, age-appropriate"

\* STYLE_PRESETS: the prompt_suffix of each preset
STYLE_PRESETS ==
    [watercolor |->
        "watercolor illustration style, soft edges, warm pastel colors, "
        \o "dreamy atmosphere, gentle brush strokes, children's picture book art",
     cartoon |->
        "cartoon illustration style, bright vibrant colors, simple bold shapes, "
        \o "clean lines, playful character design, children's picture book art",
     storybook_classic |->
        "classic children's book illustration style, warm earthy colors, "
        \o "detailed but soft rendering, cozy inviting atmosphere, "
        \o "reminiscent of classic picture books, nostalgic feeling",
     modern_digital |->
        "modern digital illustration style, bold saturated colors, "
        \o "clean vector-like lines, contemporary character design, "
        \o "children's picture book art, sense of wonder and adventure",
     pencil_sketch |->
        "pencil sketch illustration style, hand-drawn look, "
        \o "soft graphite shading, gentle lines, expressive strokes, "
        \o "children's book art, warm and personal feeling"]

\* get_style(name): KeyError for a name that is not a key of STYLE_PRESETS
get_style(name) ==
    IF name \notin DOMAIN STYLE_PRESETS THEN Err("KeyError")
    ELSE Ok(STYLE_PRESETS[name])

\* sep.join(parts)
RECURSIVE join(_, _)
join(sep, parts) ==
    IF parts = <<>> THEN ""
    ELSE IF Len(parts) = 1 THEN parts[1]
    ELSE parts[1] \o sep \o join(sep, Tail(parts))

\* a composition that leaves the safety modifiers out
apply_style_unguarded(base_prompt, style_name) ==
    IF ~get_style(style_name).ok THEN get_style(style_name)
    ELSE Ok(base_prompt \o ", " \o get_style(style_name).value)

\* apply_style(base_prompt, style_name)
apply_style(base_prompt, style_name) ==
    IF ~get_style(style_name).ok THEN get_style(style_name)
    ELSE Ok(base_prompt \o ", " \o get_style(style_name).value
                        \o ", " \o SAFETY_MODIFIERS)

\* build_illustration_prompt(scene_description, character_traits, style_name,
\* additional_context): None and the empty list, None and "" are alike falsy
build_illustration_prompt(scene_description, character_traits, style_name, additional_context) ==
    apply_style(
        join(", ",
             <<scene_description>>
             \o (IF character_traits # <<>>
                 THEN <<"featuring " \o join(", ", character_traits)>>
                 ELSE <<>>)
             \o (IF additional_context # ""
                 THEN <<additional_context>>
                 ELSE <<>>)),
        style_name)

(***************************************************************************)
(* generation/prompts.py: build_illustration_prompt_simple                 *)
(***************************************************************************)
\* the fixed maximum length of a scene description
MAX_SCENE_LENGTH == 200

\* the traits of the characters, one list
RECURSIVE all_traits(_)
all_traits(characters) ==
    IF characters = <<>> THEN <<>>
    ELSE <<characters[1].name>> \o characters[1].visual_traits
         \o all_traits(Tail(characters))

\* build_illustration_prompt_simple(page_text, characters, style): the page
\* text, cut to the maximum with an ellipsis, goes through the same
\* composition
build_illustration_prompt_simple(page_text, characters, style) ==
    build_illustration_prompt(
        IF Len(page_text) > MAX_SCENE_LENGTH
        THEN SubSeq(page_text, 1, MAX_SCENE_LENGTH) \o "..."
        ELSE page_text,
        all_traits(characters), style, "")

(***************************************************************************)
(* generation/prompts.py: find_characters_in_page                          *)
(***************************************************************************)
\* a character of a word: a letter, a digit or the underscore
IsWordChar(c) == In(c, AsciiLower \o AsciiUpper \o AsciiDigits \o "_")
\* name occurs in text as a whole word, ignoring case
whole_word_in(name, text) ==
    \E i \in 1..(Len(text) - Len(name) + 1) :
        /\ lower(SubSeq(text, i, i + Len(name) - 1)) = lower(name)
        /\ i = 1 \/ ~IsWordChar(Char(text, i - 1))
        /\ i + Len(name) > Len(text) \/ ~IsWordChar(Char(text, i + Len(name)))

\* a search that takes every character whose name appears in the text
find_characters_in_page_anywhere(page_text, characters) ==
    SelectSeq(characters, LAMBDA c : appears_in_text(c, page_text))

\* find_characters_in_page(page_text, characters): the characters whose
\* names the text mentions, in their order
find_characters_in_page(page_text, characters) ==
    SelectSeq(characters, LAMBDA c : whole_word_in(c.name, page_text))

\* no find_characters_in_page call made yet
NoMention == [called |-> FALSE, text |-> "", characters |-> <<>>, found |-> <<>>]

\* a composition call: its entry point, its text and style arguments and
\* what it returned
Composed(fn, text, style, r) ==
    [fn |-> fn, text |-> text, style |-> style, ok |-> r.ok, error |-> r.error,
     prompt |-> IF r.ok THEN r.value ELSE ""]
NoComposed == Composed("none", "", "", Err(None))

(***************************************************************************)
(* generation/prompts.py: calculate_story_structure                        *)
(***************************************************************************)
calculate_story_structure(page_count) ==
    IF page_count <= 4
    THEN [beginning_end |-> 1,
          middle_start |-> 2,
          middle_end |-> page_count - 1,
          ending_start |-> page_count]
    ELSE IF page_count <= 8
    THEN [beginning_end |-> 2,
          middle_start |-> 3,
          middle_end |-> page_count - 2,
          ending_start |-> page_count - 1]
    ELSE LET beginning == page_count \div 4
             ending_start == page_count - (page_count \div 4) + 1
         IN [beginning_end |-> beginning,
             middle_start |-> beginning + 1,
             middle_end |-> ending_start - 1,
             ending_start |-> ending_start]

\* no call made yet
NoStructure ==
    [page_count |-> -1,
     result |-> [beginning_end |-> 0, middle_start |-> 0, middle_end |-> 0,
                 ending_start |-> 0]]

(***************************************************************************)
(* core/engine.py: Message, ConversationState, StoryEngine                 *)
(***************************************************************************)
Message(role, content) == [role |-> role, content |-> content]

\* ConversationState(): no messages, phase "initial", no story.  Of the
\* story the engine holds, the conversation needs only that there is one:
\* it is kept as its title.
ConversationState ==
    [messages |-> <<>>, current_phase |-> "initial", story |-> None]

\* ConversationState.add_message: self.messages.append(Message(role, content))
add_message(st, role, content) ==
    [st EXCEPT !.messages = Append(@, Message(role, content))]

\* ConversationState.clear
clear(st) ==
    [st EXCEPT !.messages = <<>>, !.current_phase = "initial", !.story = None]

\* STORY_GUIDE_SYSTEM.render(target_age=..., style=...), abridged to the
\* two lines that carry the substituted values
render_system(target_age, style) ==
    "Target age group: " \o target_age \o " years old\nIllustration style: " \o style
\* STORY_START.render(), its first line
START_PROMPT == "Let's create a wonderful story together!"

\* what a call on the engine gives back: the state it leaves, the value it
\* returned or the exception that left it, and how often it called
\* text_generator.chat
EngineCall(st, ret, raised, chats) ==
    [state |-> st, ret |-> ret, raised |-> raised, chats |-> chats]

\* StoryEngine.start_new_story, lines 165-207, with the engine's defaults
\* "5-8" and "storybook_classic" for target_age and style
start_new_story(st, title) ==
    LET cleared == clear(st)
        created == [cleared EXCEPT
                      !.story = IF title = "" THEN "Untitled Story" ELSE title,
                      !.current_phase = "ideation"]
        with_system == add_message(created, "system",
                                   render_system("5-8", "storybook_classic"))
    IN  EngineCall(add_message(with_system, "assistant", START_PROMPT),
                   START_PROMPT, FALSE, 0)

\* StoryEngine.process_user_input, lines 209-239; chat is what the text
\* generator does with the messages: it returns a response or it raises
process_user_input(st, user_input, chat) ==
    IF st.story = None
    THEN start_new_story(st, "")
    ELSE LET asked == add_message(st, "user", user_input)
         IN  IF chat.raises
             THEN EngineCall(asked, chat.response, TRUE, 1)
             ELSE EngineCall(add_message(asked, "assistant", chat.response),
                             chat.response, FALSE, 1)

\* no call made on the engine yet
NoEngineCall ==
    [op |-> "none", user_input |-> "", had_story |-> FALSE, ret |-> "",
     raised |-> FALSE, chats |-> 0]

Init ==
    /\ now = 0
    /\ story = create_story("T", "", "5-8", "storybook_classic", 0)
    /\ lastOp = Op("create_story")
    /\ added = <<>>
    /\ made = [model |-> "schnell", quantize |-> 4, steps |-> 4,
               result |-> ImageConfig("schnell", 4, 4, 1024, 1024, NoSeed)]
    /\ default_generator = 0
    /\ instances = <<>>
    /\ getter = [t \in GetThreads |-> IdleGetter]
    /\ config = DefaultConfig
    /\ flux_model = NoModel
    /\ model_lock = Free
    /\ cancel_requested = FALSE
    /\ call = [t \in GenThreads |-> IdleCall]
    /\ uc = "idle"
    /\ nCalls = 0
    /\ disk = EmptyFS
    /\ lastIO = NoIO
    /\ structure = NoStructure
    /\ composed = NoComposed
    /\ slugged = NoSlug
    /\ mentioned = NoMention
    /\ state = ConversationState
    /\ lastCall = NoEngineCall

\* time passes
Tick ==
    /\ now < MaxClock
    /\ now' = now + 1
    /\ UNCHANGED <<story, lastOp, added>>
    /\ UNCHANGED notStory

AddPage ==
    \E n \in PageNumbers, text \in Texts :
        /\ Len(story.pages) < MaxPages
        /\ story' = add_page(story, create_page(n, text, ""), now)
        /\ added' = Append(added, create_page(n, text, ""))
        /\ lastOp' = Op("add_page")
        /\ UNCHANGED <<now, notStory>>

UpdatePage ==
    \E n \in PageNumbers, kwargs \in KwargsSet :
        LET r == update_page(story, n, kwargs, now) IN
        /\ story' = r.story
        /\ lastOp' = [op |-> "update_page", ok |-> r.ok]
        /\ added' = <<>>
        /\ UNCHANGED <<now, notStory>>

RemovePage ==
    \E n \in PageNumbers :
        /\ story' = remove_page(story, n, now)
        /\ lastOp' = Op("remove_page")
        /\ added' = <<>>
        /\ UNCHANGED <<now, notStory>>

RenumberPages ==
    /\ story' = renumber_pages(story, now)
    /\ lastOp' = Op("renumber_pages")
    /\ added' = <<>>
    /\ UNCHANGED <<now, notStory>>


(***************************************************************************)
(* ImageConfig construction.                                               *)
(***************************************************************************)
ConstructImageConfig ==
    \E model \in Models, quantize \in Quantizes, steps \in StepsRange :
        /\ made' = [model |-> model, quantize |-> quantize, steps |-> steps,
                    result |-> ImageConfig(model, quantize, steps, 1024, 1024, NoSeed)]
        /\ UNCHANGED notConfig

NextConfig == ConstructImageConfig
SpecConfig == Init /\ [][NextConfig]_vars

(***************************************************************************)
(* get_generator, called from several threads.  A thread may be switched   *)
(* out between any two of: the test of the global, the construction, the   *)
(* store to the global, the update and the read of the global for return.  *)
(***************************************************************************)
GetStart(t) ==
    /\ getter[t].pc \in {"idle", "done"}
    /\ \E arg \in GetArgs :
          getter' = [getter EXCEPT ![t] = [IdleGetter EXCEPT !.pc = "check", !.arg = arg]]
    /\ UNCHANGED <<default_generator, instances, notSingleton>>

\* if _default_generator is None: ... elif config is not None: ...
GetCheck(t) ==
    /\ getter[t].pc = "check"
    /\ getter' = [getter EXCEPT ![t].pc =
                    IF default_generator = 0 THEN "create"
                    ELSE IF getter[t].arg # NoConfig THEN "update"
                    ELSE "return"]
    /\ UNCHANGED <<default_generator, instances, notSingleton>>

\* ImageGenerator(config): self._config = config or ImageConfig()
GetCreate(t) ==
    /\ getter[t].pc = "create"
    /\ instances' = Append(instances,
                           IF getter[t].arg = NoConfig THEN DefaultConfig
                           ELSE getter[t].arg)
    /\ getter' = [getter EXCEPT ![t].pc = "assign", ![t].new = Len(instances) + 1]
    /\ UNCHANGED <<default_generator, notSingleton>>

\* _default_generator = <the new instance>
GetAssign(t) ==
    /\ getter[t].pc = "assign"
    /\ default_generator' = getter[t].new
    /\ getter' = [getter EXCEPT ![t].pc = "return"]
    /\ UNCHANGED <<instances, notSingleton>>

\* _default_generator.update_config(config)
GetUpdate(t) ==
    /\ getter[t].pc = "update"
    /\ instances' = [instances EXCEPT ![default_generator] = getter[t].arg]
    /\ getter' = [getter EXCEPT ![t].pc = "return"]
    /\ UNCHANGED <<default_generator, notSingleton>>

\* return _default_generator
GetReturn(t) ==
    /\ getter[t].pc = "return"
    /\ getter' = [getter EXCEPT ![t].pc = "done", ![t].ret = default_generator]
    /\ UNCHANGED <<default_generator, instances, notSingleton>>

NextSingleton ==
    \E t \in GetThreads :
        \/ GetStart(t)
        \/ GetCheck(t)
        \/ GetCreate(t)
        \/ GetAssign(t)
        \/ GetUpdate(t)
        \/ GetReturn(t)
SpecSingleton == Init /\ [][NextSingleton]_vars

(***************************************************************************)
(* One ImageGenerator: generate called from the threads of GenThreads,     *)
(* cancel and update_config called from the foreground thread.  A generate *)
(* call is a sequence of steps; between two steps other threads may run.   *)
(***************************************************************************)
\* generate, lines 255-266: the cancel flag is reset, then the platform and
\* the backend are checked; a failed check returns a failure result
GenerateStart(t) ==
    /\ call[t].pc = "idle"
    /\ nCalls < MaxCalls
    /\ nCalls' = nCalls + 1
    /\ cancel_requested' = FALSE
    /\ \E path \in OutputPaths, host \in Hosts, installed \in BOOLEAN :
          LET c == [IdleCall EXCEPT !.output_path = path]
              platform == check_platform(host)
              mflux == check_mflux_available(installed)
          IN  call' = [call EXCEPT ![t] =
                  IF ~platform[1]
                  THEN Returned(c, "platform",
                                GenerationResult(FALSE, NoPath, platform[2], NoSeed))
                  ELSE IF ~mflux[1]
                  THEN Returned(c, "mflux",
                                GenerationResult(FALSE, NoPath, mflux[2], NoSeed))
                  ELSE [c EXCEPT !.pc = "lock"]]
    /\ UNCHANGED <<config, flux_model, model_lock, uc, notGenerator>>

\* with self._model_lock: if self._flux_model is None: ...
\* (with a model cached the block is empty and the lock is released at once)
AcquireLock(t) ==
    /\ call[t].pc = "lock"
    /\ model_lock = Free
    /\ IF needs_load(flux_model)
       THEN /\ model_lock' = t
            /\ call' = [call EXCEPT ![t].pc = "load", ![t].loaded = TRUE]
       ELSE /\ model_lock' = Free
            /\ call' = [call EXCEPT ![t].pc = "ckpt1"]
    /\ UNCHANGED <<config, flux_model, cancel_requested, uc, nCalls, notGenerator>>

\* _load_model under the lock: the progress callback, then Flux1.from_name
\* with the configuration as it is now; leaving the with block releases the
\* lock, also when an exception passes through it
LoadModel(t) ==
    /\ call[t].pc = "load"
    /\ model_lock = t
    /\ model_lock' = Free
    /\ \/ /\ \E msg \in Msgs :
                call' = [call EXCEPT ![t] =
                           Thrown(call[t], "callback", Exc("Exception", msg))]
          /\ UNCHANGED flux_model
       \/ /\ \E msg \in Msgs :
                call' = [call EXCEPT ![t] =
                           Thrown(call[t], "load",
                                  Exc("RuntimeError",
                                      "Failed to load MFLUX model: " \o msg))]
          /\ UNCHANGED flux_model
       \/ /\ flux_model' = [model |-> config.model, quantize |-> config.quantize]
          /\ call' = [call EXCEPT ![t].pc = "ckpt1"]
    /\ UNCHANGED <<config, cancel_requested, uc, nCalls,
                   notGenerator>>

\* if self._cancel_requested: return GenerationResult(success=False, ...)
CheckCancelBeforeGenerate(t) ==
    /\ call[t].pc = "ckpt1"
    /\ call' = [call EXCEPT ![t] =
                  IF cancel_check(cancel_requested)
                  THEN Returned(call[t], "cancel",
                                GenerationResult(FALSE, NoPath, "Generation cancelled",
                                                 NoSeed))
                  ELSE [call[t] EXCEPT !.pc = "prepare"]]
    /\ UNCHANGED <<config, flux_model, model_lock, cancel_requested, uc, nCalls, notGenerator>>

\* _generate_image, lines 308-326: the seed, the progress callback, the
\* backend configuration with the step count of the configuration as it is now
PrepareGenerate(t) ==
    /\ call[t].pc = "prepare"
    /\ \/ \E msg \in Msgs :
             call' = [call EXCEPT ![t] =
                        Thrown(call[t], "callback", Exc("Exception", msg))]
       \/ \E seed \in Seeds(config) :
             call' = [call EXCEPT ![t].pc = "infer", ![t].seed = seed,
                                  ![t].steps = config.steps]
    /\ UNCHANGED <<config, flux_model, model_lock, cancel_requested, uc, nCalls, notGenerator>>

\* self._flux_model.generate_image(seed, prompt, config) is invoked on the
\* model cached now; with none cached the attribute access fails
InvokeBackend(t) ==
    /\ call[t].pc = "infer"
    /\ call' = [call EXCEPT ![t] =
                  IF flux_model = NoModel
                  THEN Thrown(call[t], "infer",
                              Exc("AttributeError",
                                  "'NoneType' object has no attribute 'generate_image'"))
                  ELSE [call[t] EXCEPT !.pc = "inferring", !.inferred = TRUE]]
    /\ UNCHANGED <<config, flux_model, model_lock, cancel_requested, uc, nCalls, notGenerator>>

\* the backend returns an image or throws
BackendReturns(t) ==
    /\ call[t].pc = "inferring"
    /\ \/ \E msg \in Msgs :
             call' = [call EXCEPT ![t] =
                        Thrown(call[t], "infer", Exc("Exception", msg))]
       \/ call' = [call EXCEPT ![t].pc = "ckpt2"]
    /\ UNCHANGED <<config, flux_model, model_lock, cancel_requested, uc, nCalls, notGenerator>>

\* if self._cancel_requested: return GenerationResult(success=False, ...)
CheckCancelBeforeSave(t) ==
    /\ call[t].pc = "ckpt2"
    /\ call' = [call EXCEPT ![t] =
                  IF cancel_requested
                  THEN Returned(call[t], "cancel",
                                GenerationResult(FALSE, NoPath, "Generation cancelled",
                                                 NoSeed))
                  ELSE [call[t] EXCEPT !.pc = "saving"]]
    /\ UNCHANGED <<config, flux_model, model_lock, cancel_requested, uc, nCalls, notGenerator>>

\* lines 345-357: the progress callback, output_path.parent.mkdir, image.save
SaveImage(t) ==
    /\ call[t].pc = "saving"
    /\ \/ \E msg \in Msgs :
             call' = [call EXCEPT ![t] =
                        Thrown(call[t], "callback", Exc("Exception", msg))]
       \/ \E msg \in Msgs :
             call' = [call EXCEPT ![t] =
                        Thrown(call[t], "mkdir", Exc("OSError", msg))]
       \/ \E msg \in Msgs :
             call' = [call EXCEPT ![t] =
                        Thrown([call[t] EXCEPT !.dir_made = TRUE], "save",
                               Exc("Exception", msg))]
       \/ call' = [call EXCEPT ![t].pc = "complete", ![t].dir_made = TRUE,
                                ![t].saved = TRUE]
    /\ UNCHANGED <<config, flux_model, model_lock, cancel_requested, uc, nCalls,
                   notGenerator>>

\* lines 362-375: the progress callback, then the success result
Complete(t) ==
    /\ call[t].pc = "complete"
    /\ \/ \E msg \in Msgs :
             call' = [call EXCEPT ![t] =
                        Thrown(call[t], "callback", Exc("Exception", msg))]
       \/ call' = [call EXCEPT ![t] =
                     Returned(call[t], "none",
                              GenerationResult(TRUE, call[t].output_path, None,
                                               call[t].seed))]
    /\ UNCHANGED <<config, flux_model, model_lock, cancel_requested, uc, nCalls, notGenerator>>

\* the caller has the result; the thread may call generate again
Return(t) ==
    /\ call[t].pc = "done"
    /\ call' = [call EXCEPT ![t] = IdleCall]
    /\ UNCHANGED <<config, flux_model, model_lock, cancel_requested, uc, nCalls, notGenerator>>

\* cancel(): self._cancel_requested = True
Cancel ==
    /\ cancel_requested' = TRUE
    /\ UNCHANGED <<config, flux_model, model_lock, call, uc, nCalls, notGenerator>>

\* update_config, lines 190-197: the configuration is replaced
UpdateConfig ==
    /\ uc = "idle"
    /\ \E c \in Configs :
          /\ config' = c
          /\ uc' = IF invalidates(config, c) THEN "invalidate" ELSE "idle"
    /\ UNCHANGED <<flux_model, model_lock, cancel_requested, call, nCalls, notGenerator>>

\* update_config, lines 198-199: with self._model_lock: self._flux_model = None
InvalidateModel ==
    /\ uc = "invalidate"
    /\ model_lock = Free
    /\ flux_model' = NoModel
    /\ uc' = "idle"
    /\ UNCHANGED <<config, model_lock, cancel_requested, call, nCalls, notGenerator>>

NextGenerator ==
    \/ \E t \in GenThreads :
          \/ GenerateStart(t)
          \/ AcquireLock(t)
          \/ LoadModel(t)
          \/ CheckCancelBeforeGenerate(t)
          \/ PrepareGenerate(t)
          \/ InvokeBackend(t)
          \/ BackendReturns(t)
          \/ CheckCancelBeforeSave(t)
          \/ SaveImage(t)
          \/ Complete(t)
          \/ Return(t)
    \/ Cancel
    \/ UpdateConfig
    \/ InvalidateModel
SpecGenerator == Init /\ [][NextGenerator]_vars

(***************************************************************************)
(* The persistence calls of a client that creates, saves, loads, lists and *)
(* deletes projects, while another program writes into the same            *)
(* directories.                                                            *)
(***************************************************************************)
\* the titles of the stories the client creates
Titles == {"T", ""}
\* the explicit project_path arguments of save_story
ExplicitPaths == {"/tmp/p"}
\* the base_dir arguments: None is the default stories directory
BaseDirs == {None, "/tmp"}
BaseDir(base_dir) == IF base_dir = None THEN DEFAULT_STORIES_DIR ELSE base_dir

\* JSON documents another program leaves in a story.json: an empty object,
\* metadata whose created_at is no date, metadata alone, and a page whose
\* stored illustration path is absolute
EmptyObject == [f \in {} |-> None]
BadDate == [metadata |-> [title |-> "B", created_at |-> "yesterday",
                          modified_at |-> "0"]]
MetadataOnly == [metadata |-> [title |-> "M", created_at |-> "0",
                               modified_at |-> "0"]]
AbsoluteIllustration ==
    [metadata |-> [title |-> "M", created_at |-> "0", modified_at |-> "0"],
     pages |-> <<[page_number |-> 1, text |-> "a",
                  illustration_path |-> "/etc/passwd"]>>]
ForeignTexts ==
    {NotJson, json_dump(EmptyObject), json_dump(BadDate), json_dump(MetadataOnly),
     json_dump(AbsoluteIllustration)}
\* where the other program writes
ForeignDirs == {PathJoin(DEFAULT_STORIES_DIR, "t")}

\* the project directories there are under the base directories
Projects(files) ==
    {p \in files.dirs : PathParent(p) \in {BaseDir(b) : b \in BaseDirs}}
\* the paths load_story and delete_story are called with: the project
\* directories and one path that does not exist
Missing == "/tmp/gone"
PathArgs(files) == Projects(files) \cup {Missing}

\* the orders in which iterdir can yield the entries of a directory
Orders(entries) ==
    {order \in [1..Cardinality(entries) -> entries] :
        \A i, j \in 1..Cardinality(entries) : order[i] = order[j] => i = j}

\* create_story(title)
NewStory ==
    \E title \in Titles :
        /\ story' = create_story(title, "", "5-8", "storybook_classic", now)
        /\ lastOp' = Op("create_story")
        /\ added' = <<>>
        /\ UNCHANGED <<now, persistVars, notPersist>>

\* story = save_story(story, project_path)
SaveStory ==
    \E project_path \in {None} \cup ExplicitPaths :
        \E r \in {save_story(story, project_path, disk, now)} :
        /\ Cardinality(Projects(r.fs)) <= MaxProjects
        /\ story' = r.story
        /\ disk' = r.fs
        /\ lastIO' = IO("save_story", project_path, r.ok, r.error)
        /\ added' = <<>>
        /\ UNCHANGED <<now, lastOp, notPersist>>

\* story = load_story(project_path)
LoadStory ==
    \E project_path \in PathArgs(disk) :
        \E r \in {load_story(project_path, disk)} :
        /\ story' = IF r.ok THEN r.value ELSE story
        /\ lastIO' = IO("load_story", project_path, r.ok, r.error)
        /\ added' = <<>>
        /\ UNCHANGED <<now, lastOp, disk, notPersist>>

\* list_stories(base_dir)
ListStories ==
    \E base_dir \in BaseDirs :
        \E order \in Orders(Entries(disk, BaseDir(base_dir))) :
            \E r \in {list_stories(base_dir, disk, order)} :
            /\ disk' = r.fs
            /\ lastIO' = IO("list_stories", BaseDir(base_dir), r.ok, r.error)
            /\ UNCHANGED <<storyVars, notPersist>>

\* delete_story(project_path)
DeleteStory ==
    \E project_path \in PathArgs(disk) :
        \E r \in {delete_story(project_path, disk)} :
        /\ disk' = r.fs
        /\ lastIO' = IO("delete_story", project_path, r.ok, r.error)
        /\ UNCHANGED <<storyVars, notPersist>>

\* create_project_directory(story, base_dir)
CreateProjectDirectory ==
    \E base_dir \in BaseDirs :
        \E r \in {create_project_directory(story, base_dir, disk)} :
        /\ Cardinality(Projects(disk)) < MaxDirectories
        /\ disk' = r.fs
        /\ lastIO' = IO("create_project_directory", r.path, TRUE, None)
        /\ UNCHANGED <<storyVars, notPersist>>

\* another program writes a story.json into a directory of the stories
\* directory, or leaves a plain file there
ForeignWrite ==
    /\ \/ \E dir \in ForeignDirs, text \in ForeignTexts :
             /\ Cardinality(Projects(mkdir(disk, dir))) <= MaxProjects
             /\ disk' = write_file(mkdir(disk, dir), PathJoin(dir, "story.json"), text)
       \/ disk' = write_file(mkdir(disk, DEFAULT_STORIES_DIR),
                           PathJoin(DEFAULT_STORIES_DIR, ".DS_Store"), NotJson)
    /\ UNCHANGED <<storyVars, lastIO, notPersist>>

NextPersistence ==
    \/ NewStory
    \/ SaveStory
    \/ LoadStory
    \/ ListStories
    \/ DeleteStory
    \/ ForeignWrite
SpecPersistence == Init /\ [][NextPersistence]_vars

(***************************************************************************)
(* Project directories created for stories, retitled stories among them,   *)
(* and deleted again.                                                      *)
(***************************************************************************)
\* the keyword arguments with_metadata is called with
MetadataKwargs ==
    {[title |-> "T 1"], [created_at |-> MaxClock], [modified_at |-> 0]}

\* story = story.with_metadata(**kwargs)
WithMetadata ==
    \E kwargs \in MetadataKwargs :
        /\ story' = with_metadata(story, kwargs, now)
        /\ lastOp' = Op("with_metadata")
        /\ added' = <<>>
        /\ UNCHANGED <<now, persistVars, notPersist>>

NextProjects == NewStory \/ WithMetadata \/ CreateProjectDirectory \/ DeleteStory
SpecProjects == Init /\ [][NextProjects]_vars

(***************************************************************************)
(* Stories taken through story_to_dict / dict_to_story and through         *)
(* save_story / load_story.                                                *)
(***************************************************************************)
\* the illustration paths of the pages: none, a file outside every project,
\* a file in the pages directory of another project
TripIllustrations == {None, "/tmp/img/cat.png", "/old/pages/page_01.png"}
TripPages ==
    {Page(n, "a", "p", path) : n \in {1, 2}, path \in TripIllustrations}
    \cup {Page(1, "b", "", None)}
TripCharacters ==
    {<<>>,
     <<Character("Luna", "A brave mouse", <<"small brown mouse", "red scarf">>)>>,
     <<Character("Luna", "A brave mouse", <<"small brown mouse", "red scarf">>),
       Character("Owl", "", <<>>)>>}
\* the stories: any metadata, characters and up to MaxTripPages pages
RoundTripStories ==
    {[create_story(title, author, "5-8", "storybook_classic", 0)
         EXCEPT !.characters = characters, !.pages = pages] :
        title \in Titles, author \in {"", "A"}, characters \in TripCharacters,
        pages \in UNION {[1..n -> TripPages] : n \in 0..MaxTripPages}}
\* the project paths the stories are restored under
TripTargets == ExplicitPaths \cup {PathJoin(DEFAULT_STORIES_DIR, "t")}

InitRoundTrip ==
    /\ story \in RoundTripStories
    /\ now = 0
    /\ lastOp = Op("create_story")
    /\ added = <<>>
    /\ made = [model |-> "schnell", quantize |-> 4, steps |-> 4,
               result |-> ImageConfig("schnell", 4, 4, 1024, 1024, NoSeed)]
    /\ default_generator = 0
    /\ instances = <<>>
    /\ getter = [t \in GetThreads |-> IdleGetter]
    /\ config = DefaultConfig
    /\ flux_model = NoModel
    /\ model_lock = Free
    /\ cancel_requested = FALSE
    /\ call = [t \in GenThreads |-> IdleCall]
    /\ uc = "idle"
    /\ nCalls = 0
    /\ disk = EmptyFS
    /\ lastIO = NoIO
    /\ structure = NoStructure
    /\ composed = NoComposed
    /\ slugged = NoSlug
    /\ mentioned = NoMention
    /\ state = ConversationState
    /\ lastCall = NoEngineCall

\* story = dict_to_story(story_to_dict(story), project_path)
ThroughDict ==
    \E project_path \in TripTargets :
        \E r \in {dict_to_story(story_to_dict(story), project_path)} :
        /\ story' = IF r.ok THEN r.value ELSE story
        /\ lastIO' = IO("dict_to_story", project_path, r.ok, r.error)
        /\ added' = <<>>
        /\ UNCHANGED <<now, lastOp, disk, notPersist>>

\* save_story(story, project_path); story = load_story(project_path)
ThroughDisk ==
    \E project_path \in TripTargets :
        \E saved \in {save_story(story, project_path, disk, now)} :
        \E r \in {load_story(project_path, saved.fs)} :
            /\ saved.ok
            /\ disk' = saved.fs
            /\ story' = IF r.ok THEN r.value ELSE saved.story
            /\ lastIO' = IO("load_story", project_path, r.ok, r.error)
            /\ added' = <<>>
            /\ UNCHANGED <<now, lastOp, notPersist>>

NextRoundTrip == ThroughDict \/ ThroughDisk
SpecRoundTrip == InitRoundTrip /\ [][NextRoundTrip]_vars

\* add_page calls only, on a story made by create_story
NextAddPage == Tick \/ AddPage
SpecAddPage == Init /\ [][NextAddPage]_vars

\* every page mutation
Next == Tick \/ AddPage \/ UpdatePage \/ RemovePage \/ RenumberPages
Spec == Init /\ [][Next]_vars

(***************************************************************************)
(* Properties of the entity model.                                         *)
(***************************************************************************)
Sorted(pages) ==
    \A i, j \in 1..Len(pages) :
        i < j => pages[i].page_number <= pages[j].page_number

PagesNumbered(pages, n) == SelectSeq(pages, LAMBDA p : p.page_number = n)

\* C1: under add_page calls alone the pages are sorted ascending by
\* page_number after every call, and the pages that share a page_number
\* stand in the order in which they were added.
C1_AddPageSortedStable ==
    /\ Sorted(story.pages)
    /\ \A n \in PageNumbers :
          PagesNumbered(story.pages, n) = PagesNumbered(added, n)

\* three pages were added, one of them before a page with a lower number and
\* two of them with the same number and different texts
C1_Witness ==
    /\ Len(story.pages) = 3
    /\ Len(added) = 3
    /\ \E i, j \in 1..3 : i < j /\ added[i].page_number > added[j].page_number
    /\ \E i, j \in 1..3 :
          /\ i < j
          /\ story.pages[i].page_number = story.pages[j].page_number
          /\ story.pages[i].text # story.pages[j].text

\* C2: no two pages of the story share a page_number, whatever mutations
\* were applied.
C2_UniquePageNumbers ==
    \A i, j \in 1..Len(story.pages) :
        i # j => story.pages[i].page_number # story.pages[j].page_number

OnlyGivenFieldsChanged(s, s2, page_number, kwargs) ==
    /\ Len(s2.pages) = Len(s.pages)
    /\ \A i \in 1..Len(s.pages) :
          IF s.pages[i].page_number = page_number
          THEN \A f \in DOMAIN s.pages[i] :
                  IF f \in DOMAIN kwargs
                  THEN s2.pages[i][f] = kwargs[f]
                  ELSE s2.pages[i][f] = s.pages[i][f]
          ELSE s2.pages[i] = s.pages[i]

\* C4: on every reachable story, update_page with a page_number that no page
\* has fails with the not-found error and yields no story other than the one
\* given (pages, characters, project_path and metadata, modified_at included,
\* are as before); with a page_number that a page has it succeeds, changes
\* only the given fields of the pages with that number, and stamps
\* modified_at with the clock.
C4_UpdatePageNotFound ==
    \A n \in PageNumbers, kwargs \in KwargsSet :
        LET r == update_page(story, n, kwargs, now) IN
        IF \A i \in 1..Len(story.pages) : story.pages[i].page_number # n
        THEN /\ ~r.ok
             /\ r.error = "ValueError"
             /\ r.story = story
        ELSE /\ r.ok
             /\ OnlyGivenFieldsChanged(story, r.story, n, kwargs)
             /\ r.story.characters = story.characters
             /\ r.story.project_path = story.project_path
             /\ r.story.metadata.created_at = story.metadata.created_at
             /\ r.story.metadata.title = story.metadata.title
             /\ r.story.metadata.modified_at = now

\* update_page has just failed on a story that has pages, at a time later
\* than the story's last stamp
C4_Witness ==
    /\ lastOp = [op |-> "update_page", ok |-> FALSE]
    /\ Len(story.pages) > 0
    /\ now > story.metadata.modified_at

(***************************************************************************)
(* Properties of ImageConfig, get_generator and ImageGenerator.            *)
(***************************************************************************)
ValidArguments(model, quantize, steps) ==
    /\ model = "schnell" \/ model = "dev"
    /\ quantize = 4 \/ quantize = 8
    /\ model = "schnell" => steps \in 2..8
    /\ model = "dev" => steps \in 15..30

\* C5: ImageConfig(model, quantize, steps) succeeds if and only if model is
\* schnell or dev, quantize is 4 or 8 and steps lies in 2..8 for schnell and
\* in 15..30 for dev; otherwise it fails with a ValueError and there is no
\* config object.
C5_ImageConfigValidation ==
    /\ made.result.ok <=> ValidArguments(made.model, made.quantize, made.steps)
    /\ made.result.ok =>
          /\ made.result.config.model = made.model
          /\ made.result.config.quantize = made.quantize
          /\ made.result.config.steps = made.steps
    /\ ~made.result.ok =>
          /\ made.result.config = NoConfig
          /\ made.result.error # None

\* a schnell configuration with the highest step count allowed was made
C5_Witness ==
    /\ made.model = "schnell"
    /\ made.quantize = 8
    /\ made.steps = 8
    /\ made.result.ok

InSystemDirectory(path) == path.dir \in {"/etc", "/var/log"}

\* C6: a generate call whose output path lies in a system directory creates
\* no directory, does not invoke the image's save and does not succeed.
C6_SystemPathNotWritten ==
    \A t \in GenThreads :
        InSystemDirectory(call[t].output_path) =>
            /\ ~call[t].dir_made
            /\ ~call[t].saved
            /\ ~(call[t].pc = "done" /\ call[t].result.success)

\* C7: at most one ImageGenerator is ever created by get_generator and all
\* calls that have returned have returned the same instance.
C7_OneInstance ==
    /\ Len(instances) <= 1
    /\ \A t, u \in GetThreads :
          getter[t].pc = "done" /\ getter[u].pc = "done"
              => getter[t].ret = getter[u].ret

\* C8 as stated: every generate call returns a result (no exception leaves
\* it), and a failure result carries a non-empty error text.
C8_NeverRaisesNonEmptyError ==
    \A t \in GenThreads :
        call[t].pc = "done" =>
            /\ call[t].outcome = "returned"
            /\ ~call[t].result.success =>
                  call[t].result.error # None /\ call[t].result.error # ""

\* C8: every generate call returns a result (no exception leaves it); a call
\* that failed at any stage returns success=False with the text of the
\* failure and no image path; the text is non-empty for an unsupported
\* platform, a missing backend, a failed model load and a cancellation, and
\* is empty only for an exception without a message thrown by the progress
\* callback, the inference, the directory creation or the save.
C8_NeverRaises ==
    \A t \in GenThreads :
        call[t].pc = "done" =>
            /\ call[t].outcome = "returned"
            /\ call[t].result.success <=> call[t].failed_at = "none"
            /\ ~call[t].result.success =>
                  /\ call[t].result.error # None
                  /\ call[t].result.image_path = NoPath
                  /\ call[t].result.error = "" =>
                        call[t].failed_at \in {"callback", "infer", "mkdir", "save"}

\* a failed model load was turned into a failure result
C8_Witness ==
    \E t \in GenThreads :
        /\ call[t].pc = "done"
        /\ call[t].outcome = "returned"
        /\ call[t].failed_at = "load"
        /\ call[t].result.error = "Failed to load MFLUX model: "

\* C9: update_config discards the cached model exactly when the new
\* configuration differs from the previous one in model or quantize; a
\* cached model is discarded by nothing else; generate invokes the model load
\* exactly when it takes the lock with no model cached; and a model gets
\* cached only by such a load, made with the model and quantize configured.
C9_ModelCache ==
    [][/\ (uc = "idle" /\ (config' # config \/ uc' # uc)) =>
            (uc' = "invalidate" <=>
                (config'.model # config.model \/ config'.quantize # config.quantize))
       /\ (uc = "invalidate" /\ uc' = "idle") => flux_model' = NoModel
       /\ (flux_model # NoModel /\ flux_model' = NoModel) =>
            (uc = "invalidate" /\ uc' = "idle")
       /\ \A t \in GenThreads :
            (~call[t].loaded /\ call'[t].loaded) <=>
                (call[t].pc = "lock" /\ call'[t].pc # "lock" /\ flux_model = NoModel)
       /\ (flux_model' # flux_model /\ flux_model' # NoModel) =>
            /\ flux_model = NoModel
            /\ \E t \in GenThreads : call[t].pc = "load" /\ call[t].loaded
            /\ flux_model' = [model |-> config.model, quantize |-> config.quantize]
      ]_vars

\* two generate calls have each loaded the model and gone on to the
\* inference: the model was loaded, discarded by update_config and loaded again
C9_Witness ==
    /\ \A t \in GenThreads : call[t].loaded /\ call[t].inferred
    /\ flux_model # NoModel
    /\ config.quantize = 8

\* C10 as stated: when cancel was requested before generate invokes the
\* backend inference, the inference is not invoked and the call returns the
\* cancelled failure.
C10_CancelBeforeInference ==
    [][\A t \in GenThreads :
          (call[t].pc = "infer" /\ cancel_requested /\ call'[t] # call[t]) =>
              /\ ~call'[t].inferred
              /\ call'[t].result.error = "Generation cancelled"
      ]_vars

\* C10: when the cancel flag is set as generate reaches its check before the
\* inference, the call returns the failure result "Generation cancelled" and
\* has not invoked, and does not invoke, the backend inference.
C10_CancelAtCheckpoint ==
    [][\A t \in GenThreads :
          (call[t].pc = "ckpt1" /\ cancel_requested /\ call'[t] # call[t]) =>
              /\ call'[t].pc = "done"
              /\ call'[t].outcome = "returned"
              /\ ~call'[t].result.success
              /\ call'[t].result.error = "Generation cancelled"
              /\ ~call'[t].inferred
      ]_vars

\* a call that loaded the model was cancelled before the inference
C10_Witness ==
    \E t \in GenThreads :
        /\ call[t].pc = "done"
        /\ call[t].failed_at = "cancel"
        /\ call[t].loaded
        /\ ~call[t].inferred

\* C11: generate reads the cancel flag at three checkpoints: before the model
\* load, before the backend inference, and after the inference before the
\* save.  A call that reaches a checkpoint with the flag set returns the
\* cancelled failure and does not perform the step that follows, and an
\* inference in flight ends only by the backend returning or throwing.
CancelledResult == GenerationResult(FALSE, NoPath, "Generation cancelled", NoSeed)
C11_ThreeCheckpoints ==
    [][\A t \in GenThreads :
          \* before the model load
          /\ (call[t].pc = "lock" /\ needs_load(flux_model) /\ cancel_requested
                /\ call'[t] # call[t])
             => (call'[t].pc = "done" /\ call'[t].result = CancelledResult
                   /\ ~call'[t].loaded)
          \* before the backend inference
          /\ (call[t].pc = "ckpt1" /\ cancel_requested /\ call'[t] # call[t])
             => (call'[t].pc = "done" /\ call'[t].result = CancelledResult
                   /\ ~call'[t].inferred)
          \* after the inference, before the save
          /\ (call[t].pc = "ckpt2" /\ cancel_requested /\ call'[t] # call[t])
             => (call'[t].pc = "done" /\ call'[t].result = CancelledResult
                   /\ ~call'[t].saved)
          \* no preemption of an inference in flight
          /\ (call[t].pc = "inferring" /\ call'[t] # call[t])
             => (call'[t].pc = "ckpt2" \/ call'[t].failed_at = "infer")
     ]_vars

\* what a story restored under project path p keeps of the story s
SameContent(s, restored, p) ==
    /\ restored.metadata.title = s.metadata.title
    /\ restored.metadata.author = s.metadata.author
    /\ Len(restored.pages) = Len(s.pages)
    /\ \A i \in 1..Len(s.pages) :
          /\ restored.pages[i].page_number = s.pages[i].page_number
          /\ restored.pages[i].text = s.pages[i].text
          /\ restored.pages[i].illustration_prompt = s.pages[i].illustration_prompt
          /\ restored.pages[i].illustration_path =
                IF s.pages[i].illustration_path = None THEN None
                ELSE p \o "/pages/" \o PathName(s.pages[i].illustration_path)
    /\ Len(restored.characters) = Len(s.characters)
    /\ \A i \in 1..Len(s.characters) :
          /\ restored.characters[i].name = s.characters[i].name
          /\ restored.characters[i].description = s.characters[i].description
          /\ restored.characters[i].visual_traits = s.characters[i].visual_traits

\* C12: for every story and project path p, dict_to_story(story_to_dict(s), p)
\* and load_story(p) after save_story(s, p) give a story with the same title
\* and author, the same pages in the same order (page_number, text,
\* illustration_prompt) and the same characters (name, description, visual
\* traits); an illustration path is written as its file name alone and comes
\* back as p/pages/<file name>.
C12_RoundTrip ==
    \A p \in TripTargets :
        \A data \in {story_to_dict(story)}, saved \in {save_story(story, p, disk, now)} :
            \A restored \in {dict_to_story(data, p)},
               loaded \in {load_story(p, saved.fs)} :
                /\ \A i \in 1..Len(story.pages) :
                      data.pages[i].illustration_path =
                         IF story.pages[i].illustration_path = None THEN None
                         ELSE PathName(story.pages[i].illustration_path)
                /\ \A i \in 1..Len(story.pages) :
                      ~In("/", data.pages[i].illustration_path)
                /\ restored.ok /\ SameContent(story, restored.value, p)
                /\ restored.value.project_path = p
                /\ saved.ok /\ loaded.ok /\ SameContent(story, loaded.value, p)
                /\ loaded.value.project_path = p

\* a story of two pages, one illustrated by a file outside every project, and
\* a character with visual traits has been taken through the serialization
C12_Witness ==
    /\ lastIO.op \in {"dict_to_story", "load_story"}
    /\ lastIO.ok
    /\ Len(story.pages) = 2
    /\ \E i \in 1..2 : story.pages[i].illustration_path = lastIO.path \o "/pages/cat.png"
    /\ \E i \in 1..2 : story.pages[i].illustration_path = None
    /\ Len(story.characters) > 0
    /\ Len(story.characters[1].visual_traits) = 2

\* the directory has the layout of a saved project
SavedProject(files, dir) ==
    /\ PathJoin(dir, "story.json") \in DOMAIN files.files
    /\ is_dir(files, PathJoin(dir, "pages"))
    /\ is_dir(files, PathJoin(dir, "exports"))
\* slug, slug-1, slug-2, ...: the directory names derived from a title
DerivedName(title, k) ==
    IF k = 0 THEN slugify(title) ELSE slugify(title) \o "-" \o Decimal(k)

\* C13: save_story writes to the explicit path when one is given, else to the
\* story's project_path, else to a new directory named after the title; with
\* none of the three (no argument, no project_path, empty title) it raises
\* the validation error and creates no directory and no file.  On success the
\* target holds story.json, pages/ and exports/ and the returned story's
\* project_path is the target.
C13_SaveStoryTarget ==
    \A project_path \in {None} \cup ExplicitPaths :
        \A r \in {save_story(story, project_path, disk, now)} :
            IF project_path = None /\ story.project_path = None
                  /\ story.metadata.title = ""
            THEN ~r.ok /\ r.error = "ValueError" /\ r.fs = disk /\ r.story = story
            ELSE /\ r.ok
                 /\ SavedProject(r.fs, r.story.project_path)
                 /\ IF project_path # None THEN r.story.project_path = project_path
                    ELSE IF story.project_path # None
                    THEN r.story.project_path = story.project_path
                    ELSE /\ ~exists(disk, r.story.project_path)
                         /\ \E k \in 0..Cardinality(disk.dirs) :
                               r.story.project_path =
                                  PathJoin(DEFAULT_STORIES_DIR,
                                           DerivedName(story.metadata.title, k))

\* a save without argument, project_path and title has been refused, with a
\* project saved before it still in place
C13_Witness ==
    /\ lastIO.op = "save_story"
    /\ ~lastIO.ok
    /\ lastIO.path = None
    /\ story.project_path = None
    /\ \E dir \in Projects(disk) :
          /\ PathParent(dir) = DEFAULT_STORIES_DIR
          /\ SavedProject(disk, dir)

\* C14: create_project_directory never returns a directory that existed
\* before the call: it returns base/slug when that name is free, else
\* base/slug-k for the smallest k >= 1 that is free, after at most as many
\* probes as there are entries in the base directory.
C14_FreshProjectDirectory ==
    \A base_dir \in BaseDirs :
        \A r \in {create_project_directory(story, base_dir, disk)} :
            /\ ~exists(disk, r.path)
            /\ is_dir(r.fs, r.path)
            /\ \E k \in 0..Cardinality(Entries(disk, BaseDir(base_dir))) :
                  /\ r.path = PathJoin(BaseDir(base_dir),
                                       DerivedName(story.metadata.title, k))
                  /\ \A j \in 0..(k - 1) :
                        exists(disk, PathJoin(BaseDir(base_dir),
                                              DerivedName(story.metadata.title, j)))

\* slug and slug-2 are taken, slug-1 has been deleted, and the directory
\* created last is a numbered one
C14_Witness ==
    /\ lastIO.op = "create_project_directory"
    /\ story.metadata.title = "T"
    /\ PathJoin(DEFAULT_STORIES_DIR, "t") \in disk.dirs
    /\ PathJoin(DEFAULT_STORIES_DIR, "t-1") \in disk.dirs
    /\ PathJoin(DEFAULT_STORIES_DIR, "t-2") \in disk.dirs
    /\ lastIO.path = PathJoin(DEFAULT_STORIES_DIR, "t-1")

\* every illustration path of the story lies under dir
IllustrationsUnder(s, dir) ==
    \A i \in 1..Len(s.pages) :
        s.pages[i].illustration_path # None
           => IsUnder(s.pages[i].illustration_path, dir)

Has(d, keys) == keys \subseteq DOMAIN d
StoryDocument(data) ==
    /\ Has(data, {"metadata"})
    /\ Has(data.metadata, {"title", "created_at", "modified_at"})
    /\ IsIso(data.metadata.created_at)
    /\ IsIso(data.metadata.modified_at)
    /\ \A i \in 1..Len(Get(data, "characters", <<>>)) :
          Has(data.characters[i], {"name", "description"})
    /\ \A i \in 1..Len(Get(data, "pages", <<>>)) :
          Has(data.pages[i], {"page_number", "text"})
\* the illustration paths the document stores are plain file names
StoresFileNames(data) ==
    \A i \in 1..Len(Get(data, "pages", <<>>)) :
        ~In("/", Get(data.pages[i], "illustration_path", None))

Listable(files, dir) ==
    /\ is_dir(files, dir)
    /\ PathJoin(dir, "story.json") \in DOMAIN files.files
    /\ files.files[PathJoin(dir, "story.json")].wellformed
    /\ Has(files.files[PathJoin(dir, "story.json")].data, {"metadata"})
    /\ Has(files.files[PathJoin(dir, "story.json")].data.metadata,
           {"title", "created_at", "modified_at"})
    /\ IsIso(files.files[PathJoin(dir, "story.json")].data.metadata.created_at)
    /\ IsIso(files.files[PathJoin(dir, "story.json")].data.metadata.modified_at)

NewCharacters == {Character("Luna", "A brave mouse", <<>>)}
RemovedNames == {"luna", "Owl"}

\* story = add_character(story, character)
AddCharacter ==
    \E character \in NewCharacters :
        /\ Len(story.characters) < MaxCharacters
        /\ story' = add_character(story, character, now)
        /\ lastOp' = Op("add_character")
        /\ added' = <<>>
        /\ UNCHANGED <<now, notStory>>

\* story = remove_character(story, name)
RemoveCharacter ==
    \E name \in RemovedNames :
        /\ story' = remove_character(story, name, now)
        /\ lastOp' = Op("remove_character")
        /\ added' = <<>>
        /\ UNCHANGED <<now, notStory>>

NextMutations ==
    Tick \/ AddCharacter \/ RemoveCharacter \/ AddPage \/ UpdatePage
         \/ RemovePage \/ RenumberPages \/ WithMetadata
SpecMutations == Init /\ [][NextMutations]_vars

\* C18: every story reached from create_story through add_character,
\* remove_character, add_page, update_page, remove_page, renumber_pages,
\* with_metadata and save_story has modified_at >= created_at (the clock
\* never goes backwards).
C18_ModifiedNotBeforeCreated ==
    story.metadata.modified_at >= story.metadata.created_at


(***************************************************************************)
(* calculate_story_structure, called with any page count.                  *)
(***************************************************************************)
PageCounts == 0..MaxPageCount

CalculateStoryStructure ==
    \E page_count \in PageCounts :
        /\ structure' = [page_count |-> page_count,
                         result |-> calculate_story_structure(page_count)]
        /\ UNCHANGED <<composed, slugged, mentioned, notPrompt>>

NextStructure == CalculateStoryStructure
SpecStructure == Init /\ [][NextStructure]_vars

\* the three ranges of a structure for n pages
Beginning(r) == 1..r.beginning_end
Middle(r) == r.middle_start..r.middle_end
Ending(r, n) == r.ending_start..n

\* C19: for any page count n, calculate_story_structure(n) partitions 1..n
\* into 1..beginning_end, middle_start..middle_end and ending_start..n, with
\* middle_start = beginning_end + 1 and ending_start = middle_end + 1: no
\* page is in two ranges and every page of 1..n is in one.
C19_StructurePartitions ==
    structure # NoStructure =>
        \A n \in {structure.page_count} : \A r \in {structure.result} :
            /\ r.middle_start = r.beginning_end + 1
            /\ r.ending_start = r.middle_end + 1
            /\ Beginning(r) \cup Middle(r) \cup Ending(r, n) = 1..n
            /\ Beginning(r) \cap Middle(r) = {}
            /\ Beginning(r) \cap Ending(r, n) = {}
            /\ Middle(r) \cap Ending(r, n) = {}


\* C20: renumber_pages returns a story with as many pages, in the same
\* order and with the same text, illustration_prompt and illustration_path,
\* whose i-th page has page_number i; so the story a renumber_pages call
\* leaves behind is numbered 1..N, and renumbering twice gives the pages that
\* renumbering once gives.
C20_RenumberPages ==
    /\ \A r \in {renumber_pages(story, now)} :
          /\ Len(r.pages) = Len(story.pages)
          /\ \A i \in 1..Len(r.pages) :
                /\ r.pages[i].page_number = i
                /\ r.pages[i].text = story.pages[i].text
                /\ r.pages[i].illustration_prompt = story.pages[i].illustration_prompt
                /\ r.pages[i].illustration_path = story.pages[i].illustration_path
          /\ renumber_pages(r, now).pages = r.pages
    /\ lastOp.op = "renumber_pages"
          => \A i \in 1..Len(story.pages) : story.pages[i].page_number = i

\* a story of MaxPages pages has been renumbered, pages of different text
\* and an illustrated page among them
C20_Witness ==
    /\ lastOp.op = "renumber_pages"
    /\ Len(story.pages) = MaxPages
    /\ \E i, j \in 1..Len(story.pages) : story.pages[i].text # story.pages[j].text
    /\ \E i \in 1..Len(story.pages) :
          /\ story.pages[i].illustration_prompt # ""
          /\ story.pages[i].illustration_path # None


(***************************************************************************)
(* Characters whose names differ in case only.                             *)
(***************************************************************************)
Cast ==
    {Character("Luna", "A brave mouse", <<>>),
     Character("LUNA", "A robot", <<>>),
     Character("Owl", "", <<>>)}
LookupNames == {"Luna", "luna", "LUNA", "owl", "Fox"}

\* story = add_character(story, character), the name taken or not
AddNamedCharacter ==
    \E character \in Cast :
        /\ Len(story.characters) < MaxCast
        /\ story' = add_character(story, character, now)
        /\ lastOp' = Op("add_character")
        /\ added' = <<>>
        /\ UNCHANGED <<now, notStory>>

\* story = remove_character(story, name), the name present or not
RemoveNamedCharacter ==
    \E name \in LookupNames :
        /\ story' = remove_character(story, name, now)
        /\ lastOp' = Op("remove_character")
        /\ added' = <<>>
        /\ UNCHANGED <<now, notStory>>

\* story.get_character(name)
GetCharacter ==
    \E name \in LookupNames :
        /\ lastOp' = [op |-> "get_character", ok |-> get_character(story, name).found]
        /\ added' = <<>>
        /\ UNCHANGED <<story, now, notStory>>

NextCharacters == Tick \/ AddNamedCharacter \/ RemoveNamedCharacter \/ GetCharacter
SpecCharacters == Init /\ [][NextCharacters]_vars

\* the positions of the characters that name matches ignoring case
Matches(characters, name) ==
    {i \in 1..Len(characters) : lower(characters[i].name) = lower(name)}
\* the k-th of the positions that name does not match
KeptAt(characters, name, k) ==
    CHOOSE i \in (1..Len(characters)) \ Matches(characters, name) :
        Cardinality({j \in (1..i) \ Matches(characters, name) : TRUE}) = k

\* C21: add_character appends whatever the name; get_character(name) gives
\* the first character whose name matches ignoring case, or nothing;
\* remove_character(story, name) removes every match and keeps the others
\* in their order, so that no spelling of the name is found afterwards, and
\* stamps modified_at also when the name is absent.
C21_CharacterByName ==
    /\ \A character \in Cast :
          add_character(story, character, now).characters
             = Append(story.characters, character)
    /\ \A name \in LookupNames : \A found \in {get_character(story, name)} :
          IF Matches(story.characters, name) = {}
          THEN ~found.found
          ELSE \E i \in Matches(story.characters, name) :
                  /\ found.found
                  /\ found.character = story.characters[i]
                  /\ \A j \in Matches(story.characters, name) : i <= j
    /\ \A name \in LookupNames : \A removed \in {remove_character(story, name, now)} :
          /\ Len(removed.characters)
                = Len(story.characters) - Cardinality(Matches(story.characters, name))
          /\ \A k \in 1..Len(removed.characters) :
                removed.characters[k]
                   = story.characters[KeptAt(story.characters, name, k)]
          /\ \A spelling \in LookupNames :
                lower(spelling) = lower(name)
                   => ~get_character(removed, spelling).found
          /\ removed.metadata.modified_at = now
          /\ Matches(story.characters, name) = {}
                => removed.characters = story.characters

\* a second character has been added under a name that differs from the
\* first one's in case only, next to a character of another name
C21_Witness ==
    /\ lastOp.op = "add_character"
    /\ Len(story.characters) = MaxCast
    /\ \E i, j \in 1..Len(story.characters) :
          /\ i < j
          /\ story.characters[i].name # story.characters[j].name
          /\ lower(story.characters[i].name) = lower(story.characters[j].name)
    /\ \E i \in 1..Len(story.characters) : story.characters[i].name = "Owl"


\* the stages of a generate call between the seed and the success result
SeedStages == {"infer", "inferring", "ckpt2", "saving", "complete"}

\* C22: the seed of a generation is the configured seed when there is one
\* and otherwise the time in milliseconds modulo 2147483647, a number of
\* 0..2147483646; it is the seed the backend is invoked with, and the
\* seed_used of a success result is that seed.
C22_SeedUsed ==
    [][\A t \in GenThreads :
          /\ (call[t].pc = "prepare" /\ call'[t].pc = "infer")
                => IF config.seed # NoSeed
                   THEN call'[t].seed = config.seed
                   ELSE /\ call'[t].seed \in 0..(MAX_SEED - 1)
                        /\ \E ms \in TimeSamples :
                              call'[t].seed = int_mod(ms, MAX_SEED)
          /\ (call[t].pc \in SeedStages /\ call'[t].pc \in SeedStages)
                => call'[t].seed = call[t].seed
          /\ (call[t].pc # "done" /\ call'[t].pc = "done"
                /\ call'[t].outcome = "returned" /\ call'[t].result.success)
                => /\ call[t].pc = "complete"
                   /\ call[t].inferred
                   /\ call'[t].result.seed_used = call[t].seed
      ]_vars

\* a generation without a configured seed has succeeded with the largest
\* seed the reduction can give, while another call runs with the configured
\* seed
C22_Witness ==
    /\ call["g1"].pc = "done"
    /\ call["g1"].result.success
    /\ call["g1"].result.seed_used = MAX_SEED - 1
    /\ call["g2"].pc \in SeedStages
    /\ call["g2"].seed = 42


(***************************************************************************)
(* The composition entry points, called with any text and any style name.  *)
(***************************************************************************)
RECURSIVE Repeat(_, _)
Repeat(s, n) ==
    IF n = 0 THEN ""
    ELSE IF n % 2 = 1 THEN s \o Repeat(s, n - 1)
    ELSE Repeat(s, n \div 2) \o Repeat(s, n \div 2)

StyleNames ==
    DOMAIN STYLE_PRESETS \cup {"invalid_style_name", "Watercolor", ""}
PromptTexts ==
    {"", "A mouse in a garden", "age-appropriate",
     "Luna found a magical flower.",
     Repeat("A", MAX_SCENE_LENGTH), Repeat("A", MAX_SCENE_LENGTH + 1)}
TraitLists == {<<>>, <<"small brown mouse">>, <<"small brown mouse", "red scarf">>}
Contexts == {"", "at night"}
Casts == {<<>>, <<Character("Luna", "a mouse", <<"small", "brown">>)>>}

ApplyStyle ==
    \E base_prompt \in PromptTexts, style_name \in StyleNames :
        /\ composed' = Composed("apply_style", base_prompt, style_name,
                                apply_style(base_prompt, style_name))
        /\ UNCHANGED <<structure, slugged, mentioned, notPrompt>>

BuildIllustrationPrompt ==
    \E scene_description \in PromptTexts, character_traits \in TraitLists,
       style_name \in StyleNames, additional_context \in Contexts :
        /\ composed' = Composed("build_illustration_prompt", scene_description,
                                style_name,
                                build_illustration_prompt(scene_description,
                                    character_traits, style_name,
                                    additional_context))
        /\ UNCHANGED <<structure, slugged, mentioned, notPrompt>>

BuildIllustrationPromptSimple ==
    \E page_text \in PromptTexts, characters \in Casts, style \in StyleNames :
        /\ composed' = Composed("build_illustration_prompt_simple", page_text,
                                style,
                                build_illustration_prompt_simple(page_text,
                                    characters, style))
        /\ UNCHANGED <<structure, slugged, mentioned, notPrompt>>

NextStyles == ApplyStyle \/ BuildIllustrationPrompt \/ BuildIllustrationPromptSimple
SpecStyles == Init /\ [][NextStyles]_vars

KnownStyles ==
    {"watercolor", "cartoon", "storybook_classic", "modern_digital", "pencil_sketch"}

\* C23: for a known style name every prompt that apply_style,
\* build_illustration_prompt and build_illustration_prompt_simple return
\* contains the SAFETY_MODIFIERS text, and apply_style returns exactly the
\* base, the style suffix and SAFETY_MODIFIERS joined by ", "; for an unknown
\* style name each fails with KeyError and returns no prompt.
C23_SafetyModifiers ==
    composed.fn # "none" =>
        IF composed.style \in KnownStyles
        THEN /\ composed.ok
             /\ Contains(composed.prompt, SAFETY_MODIFIERS)
             /\ composed.fn = "apply_style"
                   => composed.prompt
                         = join(", ", <<composed.text,
                                        STYLE_PRESETS[composed.style],
                                        SAFETY_MODIFIERS>>)
        ELSE /\ ~composed.ok
             /\ composed.error = "KeyError"
             /\ composed.prompt = ""

\* a page text longer than the maximum has been composed by the simple
\* entry point into a prompt under a known style
C23_Witness ==
    /\ composed.fn = "build_illustration_prompt_simple"
    /\ Len(composed.text) > MAX_SCENE_LENGTH
    /\ composed.style = "pencil_sketch"
    /\ composed.ok
    /\ Contains(composed.prompt, "...")
    /\ ~Contains(composed.prompt, composed.text)


(***************************************************************************)
(* slugify, called with any text.                                          *)
(***************************************************************************)
SlugAlphabet == {"a", "B", "1", " ", "-", "!"}
SlugTexts ==
    {join("", chars) :
        chars \in UNION {[1..n -> SlugAlphabet] : n \in 0..MaxTextLen}}
    \cup {"Luna's Adventure!", "Story 123", "  Hello   World  ", "Untitled",
          "\t-\n", "!a  B"}

Slugify ==
    \E text \in SlugTexts :
        /\ ~slugged.called
        /\ slugged' = [called |-> TRUE, text |-> text, slug |-> slugify(text)]
        /\ UNCHANGED <<structure, composed, mentioned, notPrompt>>

NextSlugify == Slugify
SpecSlugify == Init /\ [][NextSlugify]_vars

\* the letters and digits of s, in order
Alnum(s) == sub_not_in(s, AsciiLower \o AsciiDigits)

\* C24: slugify returns a non-empty string of a-z, 0-9 and '-' that neither
\* starts nor ends with a hyphen and has no two hyphens in a row; it is
\* 'untitled' when no letter or digit remains of the lower-cased text, and
\* otherwise carries the letters and digits of the lower-cased text in
\* their order; slugify("Luna's Adventure!") = 'lunas-adventure',
\* slugify('') = 'untitled', slugify('Story 123') = 'story-123'.
C24_Slugify ==
    slugged.called =>
    /\ slugged.slug # ""
    /\ \A i \in 1..Len(slugged.slug) :
          In(Char(slugged.slug, i), AsciiLower \o AsciiDigits \o "-")
    /\ Char(slugged.slug, 1) # "-"
    /\ Char(slugged.slug, Len(slugged.slug)) # "-"
    /\ \A i \in 1..(Len(slugged.slug) - 1) :
          ~(Char(slugged.slug, i) = "-" /\ Char(slugged.slug, i + 1) = "-")
    /\ IF Alnum(lower(slugged.text)) = ""
       THEN slugged.slug = "untitled"
       ELSE Alnum(slugged.slug) = Alnum(lower(slugged.text))
    /\ slugged.text = "Luna's Adventure!" => slugged.slug = "lunas-adventure"
    /\ slugged.text = "" => slugged.slug = "untitled"
    /\ slugged.text = "Story 123" => slugged.slug = "story-123"

\* a text with a stripped character, spaces in a row and an upper-case
\* letter has been turned into a slug with one hyphen
C24_Witness ==
    /\ slugged.called
    /\ slugged.text = "!a  B"
    /\ slugged.slug = "a-b"


(***************************************************************************)
(* find_characters_in_page, called with any page text and characters.      *)
(***************************************************************************)
PageTexts ==
    {"", "Arthur went to the castle.", "They had a party.",
     "Art painted a beautiful picture.", "A work of art", "ART!",
     "LUNA was very happy.", "Everyone cheered for Max.", "Mr. Fox had a plan.",
     "Max and art_1"}
Mentionable ==
    {Character("Art", "a painter", <<"artistic">>),
     Character("Luna", "a brave mouse", <<"small", "brown">>),
     Character("Max", "a friendly dog", <<"golden">>),
     Character("Mr. Fox", "a clever fox", <<"red">>)}
CharacterLists == UNION {[1..n -> Mentionable] : n \in 0..2}

FindCharactersInPage ==
    \E page_text \in PageTexts, characters \in CharacterLists :
        /\ ~mentioned.called
        /\ mentioned' = [called |-> TRUE, text |-> page_text,
                         characters |-> characters,
                         found |-> find_characters_in_page(page_text, characters)]
        /\ UNCHANGED <<structure, composed, slugged, notPrompt>>

NextMentions == FindCharactersInPage
SpecMentions == Init /\ [][NextMentions]_vars

\* the words of a text: its longest runs of letters, digits and underscores
RECURSIVE Words(_, _)
Words(text, word) ==
    IF text = "" THEN (IF word = "" THEN {} ELSE {word})
    ELSE IF IsWordChar(Char(text, 1))
         THEN Words(SubSeq(text, 2, Len(text)), word \o Char(text, 1))
         ELSE (IF word = "" THEN {} ELSE {word})
              \cup Words(SubSeq(text, 2, Len(text)), "")

\* C25: find_characters_in_page returns a character exactly when its name
\* occurs in the page text as a whole word, ignoring case: the character
\* 'Art' is returned for a text with the word 'Art' and not for a text where
\* 'art' occurs only inside a longer word, such as 'Arthur' or 'party'.
C25_WholeWord ==
    mentioned.called =>
        /\ \A c \in Mentionable :
              (\A i \in 1..Len(c.name) : IsWordChar(Char(c.name, i)))
                 => ((\E i \in 1..Len(mentioned.found) : mentioned.found[i] = c)
                       <=> /\ \E i \in 1..Len(mentioned.characters) :
                                 mentioned.characters[i] = c
                           /\ lower(c.name) \in Words(lower(mentioned.text), ""))
        /\ \A i \in 1..Len(mentioned.found) :
              \E j \in 1..Len(mentioned.characters) :
                  mentioned.found[i] = mentioned.characters[j]
        /\ mentioned.text \in {"Arthur went to the castle.", "They had a party."}
              => \A i \in 1..Len(mentioned.found) : mentioned.found[i].name # "Art"
        /\ (mentioned.text = "Art painted a beautiful picture."
              /\ \E j \in 1..Len(mentioned.characters) :
                    mentioned.characters[j].name = "Art")
              => \E i \in 1..Len(mentioned.found) : mentioned.found[i].name = "Art"

\* the characters Art and Max were looked for in a text that has the word
\* Max and has 'art' inside a longer word only: Max alone was returned
C25_Witness ==
    /\ mentioned.called
    /\ mentioned.text = "Max and art_1"
    /\ \E i \in 1..Len(mentioned.characters) : mentioned.characters[i].name = "Art"
    /\ Len(mentioned.found) = 1
    /\ mentioned.found[1].name = "Max"


\* C26: generate returns success=True if and only if the backend's save of
\* the image to output_path completed in that call: a call that returns
\* success=False, for whatever reason, has written no image file.
C26_SuccessIffSaved ==
    \A t \in GenThreads :
        (call[t].pc = "done" /\ call[t].outcome = "returned")
           => (call[t].result.success <=> call[t].saved)


\* the positions of a generate call from its entry up to its second cancel
\* check (lines 255-338): a cancel() issued here comes before that check
BeforeLastCheck == {"lock", "load", "ckpt1", "prepare", "infer", "inferring", "ckpt2"}

\* C27: a cancel request is never lost.  The flag is set while a generate
\* call G is outstanding before its post-inference check only by a cancel()
\* issued after G was entered (G cleared it on entry); from then on every step
\* either keeps G before that check with the flag still set, or ends G with
\* the 'Generation cancelled' failure: nothing but cancel() writes the flag
\* while a generation is outstanding.
C27_CancelNeverLost ==
    [][\A t \in GenThreads :
          (call[t].pc \in BeforeLastCheck /\ cancel_requested)
             => \/ call'[t].pc \in BeforeLastCheck /\ cancel_requested'
                \/ /\ call'[t].pc = "done"
                   /\ call'[t].outcome = "returned"
                   /\ call'[t].result = CancelledResult]_vars


\* ImageConfig.__post_init__, lines 51-54: the step counts a model accepts
steps_valid_for(model, steps) ==
    /\ model = "schnell" => (2 <= steps /\ steps <= 8)
    /\ model = "dev" => (15 <= steps /\ steps <= 30)

\* C28: whenever generate invokes the backend inference (line 332) a model
\* is cached, that model was loaded with the model and quantize values of the
\* generator's configuration as it is now, and the step count handed to the
\* backend is valid for the model that runs; and a generate call that has
\* returned or raised does not hold the model lock, also after a failed load.
C28_InferenceOnCurrentModel ==
    [][\A t \in GenThreads :
          /\ (call[t].pc = "infer" /\ call'[t] # call[t])
                => /\ flux_model # NoModel
                   /\ flux_model.model = config.model
                   /\ flux_model.quantize = config.quantize
                   /\ steps_valid_for(flux_model.model, call[t].steps)
          /\ call'[t].pc = "done" => model_lock' # t]_vars


(***************************************************************************)
(* A StoryEngine and its client: start_new_story and process_user_input,   *)
(* with a text generator that answers or raises.                            *)
(***************************************************************************)
StoryTitles == {"", "Story 1"}
UserInputs == {"I want a story about a mouse", "Hello"}
\* text_generator.chat(messages): a response, or an exception whose message
\* is in the response field
Chats == {[raises |-> FALSE, response |-> "Tell me more about the mouse."],
          [raises |-> FALSE, response |-> "What a lovely idea!"],
          [raises |-> TRUE, response |-> "ConnectionError: Ollama is not running"]}

Called(op, user_input, r) ==
    [op |-> op, user_input |-> user_input, had_story |-> state.story # None,
     ret |-> r.ret, raised |-> r.raised, chats |-> r.chats]

StartNewStory ==
    /\ \E title \in StoryTitles :
          \E r \in {start_new_story(state, title)} :
             /\ state' = r.state
             /\ lastCall' = Called("start_new_story", "", r)
    /\ UNCHANGED notEngine

ProcessUserInput ==
    /\ Len(state.messages) < 2 + 2 * MaxTurns
    /\ \E user_input \in UserInputs, chat \in Chats :
          \E r \in {process_user_input(state, user_input, chat)} :
             /\ state' = r.state
             /\ lastCall' = Called("process_user_input", user_input, r)
    /\ UNCHANGED notEngine

NextEngine == StartNewStory \/ ProcessUserInput
SpecEngine == Init /\ [][NextEngine]_vars

\* the roles of a conversation: system, assistant, then (user, assistant) pairs
Conversation(messages) ==
    /\ Len(messages) >= 2
    /\ Len(messages) % 2 = 0
    /\ messages[1].role = "system"
    /\ \A i \in 2..Len(messages) :
          messages[i].role = IF i % 2 = 0 THEN "assistant" ELSE "user"

\* C29: once a story session exists, whether the calls returned or the text
\* generator raised, the history is one system message, one assistant
\* message, then (user, assistant) pairs, the last pair being the last call's
\* input and response; start_new_story leaves exactly the two opening
\* messages; process_user_input without a story starts a session, returns the
\* opening prompt, does not call the text generator and does not record the
\* user's input.
C29_ConversationHistory ==
    /\ state.story # None => Conversation(state.messages)
    /\ (lastCall.op = "process_user_input" /\ lastCall.had_story /\ ~lastCall.raised)
          => /\ Len(state.messages) >= 4
             /\ state.messages[Len(state.messages) - 1]
                   = Message("user", lastCall.user_input)
             /\ state.messages[Len(state.messages)]
                   = Message("assistant", lastCall.ret)
    /\ (lastCall.op = "start_new_story"
           \/ (lastCall.op = "process_user_input" /\ ~lastCall.had_story))
          => /\ Len(state.messages) = 2
             /\ state.messages[2] = Message("assistant", START_PROMPT)
             /\ lastCall.ret = START_PROMPT
             /\ lastCall.chats = 0
             /\ state.story # None


\* C30: every Story mutation returns a new Story derived from the one it
\* was given; along any chain of mutations, with a clock that does not go
\* back, modified_at never decreases, and created_at keeps its value unless
\* with_metadata is the call that was made.
C30_ModifiedAtNeverDecreases ==
    [][/\ story'.metadata.modified_at >= story.metadata.modified_at
       /\ story'.metadata.created_at # story.metadata.created_at
             => lastOp'.op = "with_metadata"]_vars

====
